---- MODULE Spec2Model ----
(***************************************************************************)
(* Model of the HR headcount pipeline of dsg-innosource/data-platform:     *)
(* the date resolver (adp/date_utils.py), the transformer                  *)
(* (adp/transform.py), the loader and aggregator (adp/load.py) and the     *)
(* orchestrator (pipelines/adp_tenure_pipeline.py), the configuration      *)
(* loader (adp/config.py); and of the billing scripts                      *)
(* (scripts/billing/process_clickup_billing.py, archive_month.py).         *)
(*                                                                         *)
(* The specifications of the module:                                       *)
(*   SpecDates   the pure date functions applied to bounded inputs         *)
(*   SpecLoader  the loader operations called directly on the two tables   *)
(*   Spec        orchestrator runs (main) against the two tables           *)
(*   SpecRace    two orchestrator processes on the same tables             *)
(*   SpecTransform  clean_adp_data and validate_cleaned_data called directly *)
(*   SpecDuration   the duration parser of the billing script              *)
(*   SpecBilling    one run of the billing script                          *)
(*   SpecArchive    the billing script and then archive_month on folders   *)
(*   SpecConfig     _substitute_env_vars applied to configuration trees    *)
(*   SpecEngines    the engines the loader operations create and dispose   *)
(***************************************************************************)
EXTENDS Integers, Sequences, FiniteSets, Bags, TLC

VARIABLES
    \* ---- storage -------------------------------------------------------
    bronze,          \* staging table  bronze.adp_tenure_history (bag of rows)
    silver,          \* summary table  silver.fact_active_headcount (bag of rows)
    \* ---- one orchestrator run (locals of main) -------------------------
    pc,              \* position of main()
    args,            \* parsed command line
    snapshot_date,   \* local of main; Unbound before its first assignment
    report_date,     \* local of main; Unbound before its first assignment
    raw_df,          \* local of main
    cleaned_df,      \* local of main
    existing_bronze, \* local of main
    existing_silver, \* local of main
    exc,             \* exception in flight, NoExc when none
    exit_code,       \* process exit status of the last finished run
    error_log,       \* logs/pipeline_errors.md, a sequence of entries
    warnings,        \* logger.warning calls of the current run
    stmts,           \* storage statements the current run has completed
    bronze0,         \* staging table when the current run started
    silver0,         \* summary table when the current run started
    error_log0,      \* error log when the current run started
    \* ---- direct calls of the pure functions and of the loader ----------
    op,              \* name of the last function called
    op_in,           \* its arguments
    op_out,          \* its result (or the error it raised)
    ncalls,          \* number of direct calls made
    config_excluded, \* adp.excluded_client_codes of config.yaml
    \* ---- a second orchestrator process on the same tables --------------
    peer             \* its locals: position, arguments, frame, counts

dbVars   == <<bronze, silver>>
runVars  == <<pc, args, snapshot_date, report_date, raw_df, cleaned_df,
              existing_bronze, existing_silver, exc, exit_code, error_log,
              warnings, stmts, bronze0, silver0, error_log0>>
callVars == <<op, op_in, op_out, ncalls>>
vars     == <<dbVars, runVars, callVars, peer, config_excluded, peer>>

Null    == "NULL"       \* SQL NULL / pandas NaN / NaT / Python None
NoExc   == [at |-> "none", err |-> "none"]
EmptyFrame == [columns |-> {}, rows |-> << >>]
NoDate      == [y |-> 0, m |-> 0, d |-> 0]       \* None: the option was not given
UnboundDate == [y |-> 0, m |-> 0, d |-> 2]       \* local date not assigned yet

(***************************************************************************)
(* Calendar.  A date is its proleptic Gregorian ordinal, as                *)
(* datetime.toordinal() gives it (0001-01-01 is day 1, a Monday).  A date  *)
(* string 'YYYY-MM-DD' is the record [y, m, d]; strptime and strftime      *)
(* convert between the two.  Records with y = 0 stand for the values that  *)
(* are no date text: NoDate (None), Garbage, UnboundDate.                  *)
(***************************************************************************)
IsLeap(y) == (y % 4 = 0) /\ ((y % 100 # 0) \/ (y % 400 = 0))

DaysInMonth(y, m) ==
    IF m = 2 THEN (IF IsLeap(y) THEN 29 ELSE 28)
    ELSE IF m \in {4, 6, 9, 11} THEN 30 ELSE 31

DaysBeforeYear(y) ==
    (y - 1) * 365 + ((y - 1) \div 4) - ((y - 1) \div 100) + ((y - 1) \div 400)

RECURSIVE DaysBeforeMonth(_, _)
DaysBeforeMonth(y, m) ==
    IF m = 1 THEN 0 ELSE DaysBeforeMonth(y, m - 1) + DaysInMonth(y, m - 1)

Years == 2023 .. 2024

\* the text s is a real calendar date in the '%Y-%m-%d' format
IsDateString(s) ==
    /\ s \in [y : Years, m : 1 .. 12, d : 1 .. 31]
    /\ s.d <= DaysInMonth(s.y, s.m)

\* datetime.strptime(s, '%Y-%m-%d').toordinal(); defined when IsDateString(s)
strptime(s) == DaysBeforeYear(s.y) + DaysBeforeMonth(s.y, s.m) + s.d

\* date.strftime('%Y-%m-%d') of the date with ordinal n
strftime(n) ==
    LET y == CHOOSE yy \in Years :
                 DaysBeforeYear(yy) < n /\ n <= DaysBeforeYear(yy + 1)
        r == n - DaysBeforeYear(y)
        m == CHOOSE mm \in 1 .. 12 :
                 /\ DaysBeforeMonth(y, mm) < r
                 /\ r <= DaysBeforeMonth(y, mm) + DaysInMonth(y, mm)
    IN  [y |-> y, m |-> m, d |-> r - DaysBeforeMonth(y, m)]

\* datetime.weekday(): Monday is 0, Sunday is 6
weekday(n) == (n + 6) % 7

(***************************************************************************)
(* adp/date_utils.py                                                       *)
(***************************************************************************)
\* target_date is a datetime: [day |-> ordinal, sec |-> second of the day]
\* (variant: days counted from Sunday, as isoweekday() % 7 would)
get_monday_dates_sunday0(target_date) ==
    LET days_since_monday == (weekday(target_date.day) + 1) % 7
        current_monday    == [target_date EXCEPT !.day = @ - days_since_monday]
        previous_monday   == [current_monday EXCEPT !.day = @ - 7]
    IN  <<strftime(current_monday.day), strftime(previous_monday.day)>>

get_monday_dates(target_date) ==
    LET days_since_monday == weekday(target_date.day)
        current_monday    == [target_date EXCEPT !.day = @ - days_since_monday]
        previous_monday   == [current_monday EXCEPT !.day = @ - 7]
    IN  <<strftime(current_monday.day), strftime(previous_monday.day)>>

is_monday(date) == weekday(date.day) = 0

get_next_monday(date) ==
    LET days_until_monday == (7 - weekday(date.day)) % 7
    IN  IF days_until_monday = 0 /\ weekday(date.day) = 0
        THEN strftime(date.day)
        ELSE strftime(date.day +
                      (IF days_until_monday = 0 THEN 7 ELSE days_until_monday))

\* (variant: the 7-days-apart test left out)
validate_monday_dates_no_gap(snapshot_str, report_str) ==
    IF ~IsDateString(snapshot_str) \/ ~IsDateString(report_str)
    THEN "ValueError: does not match format"
    ELSE LET snapshot == strptime(snapshot_str)
             report   == strptime(report_str)
         IN  IF weekday(snapshot) # 0 THEN "ValueError: snapshot not a Monday"
             ELSE IF weekday(report) # 0 THEN "ValueError: report not a Monday"
             ELSE IF report >= snapshot THEN "ValueError: report should be before snapshot"
             ELSE "True"

\* the result is "True" or the ValueError raised
validate_monday_dates(snapshot_str, report_str) ==
    IF ~IsDateString(snapshot_str) \/ ~IsDateString(report_str)
    THEN "ValueError: does not match format"
    ELSE LET snapshot == strptime(snapshot_str)
             report   == strptime(report_str)
         IN  IF weekday(snapshot) # 0 THEN "ValueError: snapshot not a Monday"
             ELSE IF weekday(report) # 0 THEN "ValueError: report not a Monday"
             ELSE IF report >= snapshot THEN "ValueError: report should be before snapshot"
             ELSE IF snapshot - report # 7 THEN "ValueError: not exactly 7 days apart"
             ELSE "True"

(***************************************************************************)
(* Tables.  A table is a bag of rows.  A nullable DATE value is a set: {}  *)
(* for NULL / NaT, {n} for the date with ordinal n.  A text value is a     *)
(* string, Null for NULL; a department code is a sequence of characters,   *)
(* NullCode for NULL.  created_at (NOW()) of the summary table is left     *)
(* out: no operation reads it.                                             *)
(***************************************************************************)
NullCode == <<Null>>

Day(y, m, d) == strptime([y |-> y, m |-> m, d |-> d])

\* number of rows of table tbl among the (distinct) rows keep
CountRows(tbl, keep) ==
    BagCardinality([r \in keep \cap DOMAIN tbl |-> tbl[r]])

\* the rows of a DataFrame as a bag
RECURSIVE BagOfSeq(_)
BagOfSeq(rows) ==
    IF rows = << >> THEN EmptyBag
    ELSE SetToBag({Head(rows)}) (+) BagOfSeq(Tail(rows))

(***************************************************************************)
(* adp/load.py                                                             *)
(***************************************************************************)
\* config.get('excluded_client_codes', ['01100'])
DefaultExcludedCodes == {"01100"}

\* "', '".join(excluded_codes) between the quotes of NOT IN ('...'): an
\* empty list leaves the one empty text ''
SqlInList(excluded_codes) ==
    IF excluded_codes = {} THEN {""} ELSE excluded_codes

\* (variant: if_exists='replace' instead of 'append')
load_to_bronze_table_replace(tbl, df) == BagOfSeq(df.rows)

\* df.to_sql(..., if_exists='append'): the table after the insert
load_to_bronze_table(tbl, df) == tbl (+) BagOfSeq(df.rows)

\* COALESCE(a.rehire_date, a.hire_date)
EffectiveHireDate(a) == IF a.rehire_date # {} THEN a.rehire_date ELSE a.hire_date

\* the WHERE clause of daily_active; a comparison with NULL is not true
(* variant: the hire date test taken as <= *)
ActiveFilter_on_or_before(a, S, excluded_codes) ==
    /\ a.position_status = "Active"
    /\ a.file_number # Null
    /\ a.client_code # Null
    /\ a.client_code \notin SqlInList(excluded_codes)
    /\ EffectiveHireDate(a) # {}
    /\ a.snapshot_date # {}
    /\ \A h \in EffectiveHireDate(a), sd \in a.snapshot_date : h <= sd
    /\ a.snapshot_date = {S}

(* variant: NOT IN taken as true for a NULL client code *)
ActiveFilter_null_passes(a, S, excluded_codes) ==
    /\ a.position_status = "Active"
    /\ a.file_number # Null
    /\ a.client_code \notin SqlInList(excluded_codes)
    /\ EffectiveHireDate(a) # {}
    /\ a.snapshot_date # {}
    /\ \A h \in EffectiveHireDate(a), sd \in a.snapshot_date : h < sd
    /\ a.snapshot_date = {S}

ActiveFilter(a, S, excluded_codes) ==
    /\ a.position_status = "Active"
    /\ a.file_number # Null
    /\ a.client_code # Null
    /\ a.client_code \notin SqlInList(excluded_codes)
    /\ EffectiveHireDate(a) # {}
    /\ a.snapshot_date # {}
    /\ \A h \in EffectiveHireDate(a), sd \in a.snapshot_date : h < sd
    /\ a.snapshot_date = {S}

\* the CTE daily_active: GROUP BY home_department_code,
\* home_department_description with COUNT(DISTINCT adp_id), which skips NULL
daily_active(bronze_tbl, S, excluded_codes) ==
    LET sel  == {a \in DOMAIN bronze_tbl : ActiveFilter(a, S, excluded_codes)}
        keys == {<<a.home_department_code, a.home_department_description>> : a \in sel}
    IN  {[home_department_code        |-> k[1],
          home_department_description |-> k[2],
          active_count |->
              Cardinality({a.adp_id : a \in {x \in sel :
                  /\ x.home_department_code = k[1]
                  /\ x.home_department_description = k[2]}} \ {Null})]
         : k \in keys}

\* the rows INSERT INTO silver ... SELECT ... WHERE home_department_code IS
\* NOT NULL adds: one per group of daily_active
execute_headcount_calculation(bronze_tbl, snapshot_str, report_str, excluded_codes) ==
    LET S      == strptime(snapshot_str)
        R      == strptime(report_str)
        groups == {g \in daily_active(bronze_tbl, S, excluded_codes) :
                       g.home_department_code # NullCode}
        RowOf(g) == [department_number |-> g.home_department_code,
                     snapshot_date     |-> {S},
                     report_date       |-> {R},
                     active_count      |-> g.active_count]
    IN  [r \in {RowOf(g) : g \in groups} |->
             Cardinality({g \in groups : RowOf(g) = r})]

\* SELECT COUNT(*) FROM table WHERE snapshot_date = :snapshot_date
check_existing_data(tbl, snapshot_str) ==
    CountRows(tbl, {r \in DOMAIN tbl : r.snapshot_date = {strptime(snapshot_str)}})

\* (variant: the WHERE clause of the DELETE matches nothing)
delete_existing_data_nothing(tbl, snapshot_str) == tbl

\* (variant: a DELETE without the WHERE clause)
delete_existing_data_all(tbl, snapshot_str) == EmptyBag

\* DELETE FROM table WHERE snapshot_date = :snapshot_date: the table after it
delete_existing_data(tbl, snapshot_str) ==
    [r \in {x \in DOMAIN tbl : x.snapshot_date # {strptime(snapshot_str)}} |-> tbl[r]]

(***************************************************************************)
(* adp/extract.py and adp/transform.py.  A spreadsheet file is             *)
(* [exists, suffix, readable, columns, rows]; a DataFrame is               *)
(* [columns, rows].  A raw row maps each column name of the file to a      *)
(* cell: a text (Null for an empty cell), a sequence of characters for the *)
(* department code, a date text for the date columns.  Of the 30 columns   *)
(* the model keeps the ones the loader reads.                              *)
(***************************************************************************)
\* read_adp_file: the raw DataFrame, or the error raised
read_adp_file(file) ==
    IF ~file.exists THEN [exc |-> "FileNotFoundError", df |-> EmptyFrame]
    ELSE IF file.suffix \notin {".xls", ".xlsx"}
    THEN [exc |-> "ValueError: Unsupported file format", df |-> EmptyFrame]
    ELSE IF ~file.readable
    THEN [exc |-> "Exception: read_excel failed", df |-> EmptyFrame]
    ELSE [exc |-> "none", df |-> [columns |-> file.columns, rows |-> file.rows]]

RequiredFileColumns ==
    {"File Number", "Payroll Name", "Hire Date", "Position Status",
     "Home Department Code", "Clock Full Code", "Associate ID"}

\* (variant: the check of the columns left out)
validate_adp_file_structure_none(df) == "True"

\* validate_adp_file_structure: "True" or the ValueError raised
validate_adp_file_structure(df) ==
    IF RequiredFileColumns \ df.columns # {}
    THEN "ValueError: Missing required columns"
    ELSE "True"

\* column_mapping of clean_adp_data, for the columns of the model
column_mapping ==
    [c \in {"File Number", "Payroll Name", "Hire Date", "Rehire Date",
            "Position Status", "Home Department Code",
            "Home Department Description", "Clock Full Code", "Associate ID"} |->
        CASE c = "File Number" -> "file_number"
          [] c = "Payroll Name" -> "payroll_name"
          [] c = "Hire Date" -> "hire_date"
          [] c = "Rehire Date" -> "rehire_date"
          [] c = "Position Status" -> "position_status"
          [] c = "Home Department Code" -> "home_department_code"
          [] c = "Home Department Description" -> "home_department_description"
          [] c = "Clock Full Code" -> "client_code"
          [] c = "Associate ID" -> "adp_id"]

\* x.strip() of a sequence of characters
RECURSIVE lstrip(_)
lstrip(cs) == IF cs # << >> /\ Head(cs) = " " THEN lstrip(Tail(cs)) ELSE cs

RECURSIVE strip(_)
strip(cs) ==
    IF cs # << >> /\ cs[Len(cs)] = " " THEN strip(SubSeq(cs, 1, Len(cs) - 1))
    ELSE lstrip(cs)

\* (variant: the missing value is None, whose text is 'None')
astype_str_none(cell) == IF cell = NullCode THEN <<"N", "o", "n", "e">> ELSE cell

\* astype(str) of a department code cell: a missing cell becomes 'nan'
astype_str(cell) == IF cell = NullCode THEN <<"n", "a", "n">> ELSE cell

\* (variant: no padding)
zfill_none(cs, width) == cs

\* .str.zfill(width) applies str.zfill to each text: zeros up to the width,
\* put after a leading sign when the text has one
zfill(cs, width) ==
    LET zeros == [i \in 1 .. width - Len(cs) |-> "0"]
    IN  IF Len(cs) >= width THEN cs
        ELSE IF cs # << >> /\ Head(cs) \in {"+", "-"}
        THEN <<Head(cs)>> \o zeros \o Tail(cs)
        ELSE zeros \o cs

\* .str[:n]
str_slice(cs, n) == SubSeq(cs, 1, IF Len(cs) < n THEN Len(cs) ELSE n)

\* pd.to_datetime(text, errors='coerce').dt.date: NaT for what is no date
to_datetime_coerce(text) == IF IsDateString(text) THEN {strptime(text)} ELSE {}

\* the cell of raw row under a source column, Null when the file has no
\* such column (to_sql then leaves the table column NULL)
Cell(df, row, col, missing) == IF col \in df.columns THEN row[col] ELSE missing

\* clean_adp_data(df, snapshot_date) with snapshot_date a text
clean_adp_data(df, snapshot_str) ==
    LET CleanCode(row) ==
            IF "Home Department Code" \in df.columns
            THEN LET stripped == IF row["Home Department Code"] = NullCode
                                 THEN NullCode
                                 ELSE strip(row["Home Department Code"])
                     first    == zfill(astype_str(stripped), 6)
                 IN  zfill(str_slice(astype_str(first), 6), 6)
            ELSE NullCode
        CleanRow(row) ==
            [file_number     |-> Cell(df, row, "File Number", Null),
             adp_id          |-> Cell(df, row, "Associate ID", Null),
             position_status |-> Cell(df, row, "Position Status", Null),
             client_code     |-> Cell(df, row, "Clock Full Code", Null),
             home_department_code        |-> CleanCode(row),
             home_department_description |-> Cell(df, row, "Home Department Description", Null),
             hire_date       |-> to_datetime_coerce(Cell(df, row, "Hire Date", NoDate)),
             rehire_date     |-> to_datetime_coerce(Cell(df, row, "Rehire Date", NoDate)),
             snapshot_date   |-> to_datetime_coerce(snapshot_str)]
    IN  [columns |-> {column_mapping[c] : c \in df.columns \cap DOMAIN column_mapping}
                         \cup {"snapshot_date"},
         rows    |-> [i \in 1 .. Len(df.rows) |-> CleanRow(df.rows[i])]]

\* the dtype of the home_department_code column: 'object' for texts (with
\* None or NaN among them), as clean_adp_data leaves it; a column holding
\* only NaN is float64
code_dtype(df) == IF "code_dtype" \in DOMAIN df THEN df.code_dtype ELSE "object"

\* (variant: the length check is skipped)
validate_cleaned_data_no_length(df) ==
    IF {"file_number", "adp_id", "snapshot_date"} \ df.columns # {}
    THEN "ValueError: Missing required columns after cleaning"
    ELSE "True"

\* validate_cleaned_data: "True" or the error raised.  The .str accessor
\* of line 129 exists for text columns only.
validate_cleaned_data(df) ==
    IF {"file_number", "adp_id", "snapshot_date"} \ df.columns # {}
    THEN "ValueError: Missing required columns after cleaning"
    ELSE IF /\ "home_department_code" \in df.columns
            /\ code_dtype(df) # "object"
    THEN "AttributeError: Can only use .str accessor with string values"
    ELSE IF /\ "home_department_code" \in df.columns
            /\ \E i \in 1 .. Len(df.rows) :
                  /\ df.rows[i].home_department_code # NullCode
                  /\ Len(df.rows[i].home_department_code) # 6
    THEN "ValueError: invalid department codes"
    ELSE "True"

(***************************************************************************)
(* pipelines/adp_tenure_pipeline.py: the pure parts of main()              *)
(***************************************************************************)
MissingFile ==
    [exists |-> FALSE, suffix |-> ".xls", readable |-> FALSE,
     columns |-> {}, rows |-> << >>]

\* args before a run has parsed its command line
NoArgs == [file |-> MissingFile, snapshot_date |-> NoDate, report_date |-> NoDate,
           force |-> FALSE, skip_calculation |-> FALSE]

\* (variant: the partial override is not validated)
determine_dates_partial_unchecked(a, now) ==
    IF a.snapshot_date # NoDate /\ a.report_date # NoDate
    THEN [snapshot_date |-> a.snapshot_date, report_date |-> a.report_date,
          exc |-> LET v == validate_monday_dates(a.snapshot_date, a.report_date)
                  IN  IF v = "True" THEN "none" ELSE v]
    ELSE IF a.snapshot_date # NoDate
    THEN IF ~IsDateString(a.snapshot_date)
         THEN [snapshot_date |-> UnboundDate, report_date |-> UnboundDate,
               exc |-> "ValueError: does not match format"]
         ELSE [snapshot_date |-> a.snapshot_date,
               report_date |-> strftime(strptime(a.snapshot_date) - 7),
               exc |-> "none"]
    ELSE [snapshot_date |-> get_monday_dates(now)[1],
          report_date   |-> get_monday_dates(now)[2],
          exc |-> "none"]

\* "Determine dates" of main(): the two locals and the exception raised, if
\* any.  '--snapshot-date' alone that strptime rejects raises before
\* snapshot_date is assigned.  An option that is None or '' is not given.
determine_dates(a, now) ==
    IF a.snapshot_date # NoDate /\ a.report_date # NoDate
    THEN [snapshot_date |-> a.snapshot_date, report_date |-> a.report_date,
          exc |-> LET v == validate_monday_dates(a.snapshot_date, a.report_date)
                  IN  IF v = "True" THEN "none" ELSE v]
    ELSE IF a.snapshot_date # NoDate
    THEN IF ~IsDateString(a.snapshot_date)
         THEN [snapshot_date |-> UnboundDate, report_date |-> UnboundDate,
               exc |-> "ValueError: does not match format"]
         ELSE LET rep == strftime(strptime(a.snapshot_date) - 7)
              IN  [snapshot_date |-> a.snapshot_date, report_date |-> rep,
                   exc |-> LET v == validate_monday_dates(a.snapshot_date, rep)
                           IN  IF v = "True" THEN "none" ELSE v]
    ELSE [snapshot_date |-> get_monday_dates(now)[1],
          report_date   |-> get_monday_dates(now)[2],
          exc |-> "none"]

\* (variant: the guard looks at the staging count only when both are set)
OverwriteGuard_both(eb, es, force) == (eb > 0 /\ es > 0) /\ ~force

\* the condition of the early return of step 3
OverwriteGuard(eb, es, force) == (eb > 0 \/ es > 0) /\ ~force

\* (variant: the staging delete nested under the summary test)
AfterGuard_nested(eb, es, force) ==
    IF force /\ es > 0 THEN "delete_silver" ELSE "load"

\* where main() goes after the guard let it pass (step 4)
AfterGuard(eb, es, force) ==
    IF force /\ es > 0 THEN "delete_silver"
    ELSE IF force /\ eb > 0 THEN "delete_bronze"
    ELSE "load"

\* (variant: the handler reads a local that is always bound)
handler_always_logs(snap, error, log) ==
    [error_log |-> Append(log, [context |-> snap, error |-> error]),
     exit_code |-> 1, escaped |-> "none"]

\* the except clause of main(): the f-string of the context reads the local
\* snapshot_date; when it was never assigned an UnboundLocalError leaves
\* main() before log_error_to_markdown is called
handler(snap, error, log) ==
    IF snap = UnboundDate
    THEN [error_log |-> log, exit_code |-> 1, escaped |-> "UnboundLocalError"]
    ELSE [error_log |-> Append(log, [context |-> snap, error |-> error]),
          exit_code |-> 1, escaped |-> "none"]

(***************************************************************************)
(* SpecDates: the date functions applied to every reference instant and    *)
(* every pair of date texts of a bounded window.                           *)
(***************************************************************************)
WindowDays  == 70
WindowStart == strptime([y |-> 2023, m |-> 12, d |-> 25])
WindowDates == WindowStart .. (WindowStart + WindowDays - 1)
SecondsOfDay == {0, 86399}
RefInstants == [day : WindowDates, sec : SecondsOfDay]
Garbage     == [y |-> 0, m |-> 0, d |-> 1]       \* a text that is no 'YYYY-MM-DD'
NotADate    == [y |-> 2024, m |-> 2, d |-> 30]   \* '2024-02-30'
DateTexts   == {strftime(n) : n \in WindowDates} \cup {NotADate, Garbage}

\* the second process before it starts
NoPeer ==
    [pc |-> "idle", file |-> MissingFile, snapshot_date |-> UnboundDate,
     report_date |-> UnboundDate, force |-> FALSE, skip_calculation |-> FALSE,
     cleaned_df |-> EmptyFrame, existing_bronze |-> 0, existing_silver |-> 0,
     stmts |-> << >>]

RunIdle ==
    /\ peer = NoPeer
    /\ pc = "idle"
    /\ args = NoArgs
    /\ snapshot_date = UnboundDate
    /\ report_date = UnboundDate
    /\ raw_df = EmptyFrame
    /\ cleaned_df = EmptyFrame
    /\ existing_bronze = 0
    /\ existing_silver = 0
    /\ exc = NoExc
    /\ exit_code = 0
    /\ error_log = << >>
    /\ warnings = << >>
    /\ stmts = << >>
    /\ bronze0 = EmptyBag
    /\ silver0 = EmptyBag
    /\ error_log0 = << >>

NoCall ==
    /\ op = "none"
    /\ op_in = Null
    /\ op_out = Null
    /\ ncalls = 0

InitDates ==
    /\ bronze = EmptyBag
    /\ silver = EmptyBag
    /\ config_excluded = DefaultExcludedCodes
    /\ RunIdle
    /\ NoCall

CallGetMondayDates ==
    /\ op = "none"
    /\ \E t \in RefInstants :
          /\ op' = "get_monday_dates"
          /\ op_in' = t
          /\ op_out' = get_monday_dates(t)
    /\ ncalls' = ncalls + 1
    /\ UNCHANGED <<dbVars, runVars, config_excluded, peer>>

CallValidateMondayDates ==
    /\ op = "none"
    /\ \E s \in DateTexts, r \in DateTexts :
          /\ op' = "validate_monday_dates"
          /\ op_in' = <<s, r>>
          /\ op_out' = validate_monday_dates(s, r)
    /\ ncalls' = ncalls + 1
    /\ UNCHANGED <<dbVars, runVars, config_excluded, peer>>

NextDates == CallGetMondayDates \/ CallValidateMondayDates

SpecDates == InitDates /\ [][NextDates]_vars

(***************************************************************************)
(* Properties of the date functions                                        *)
(***************************************************************************)
\* 2024-01-15 was a Monday (test_monday_workflow.py); a day is a Monday when
\* it is a whole number of weeks away from it
KnownMonday   == strptime([y |-> 2024, m |-> 1, d |-> 15])
IsMondayDay(n) == (n - KnownMonday) % 7 = 0
WeekOf(n)      == (n - KnownMonday) \div 7

\* C5: for every reference date t, get_monday_dates(t) returns (snapshot,
\* report) where snapshot is a Monday, snapshot <= t, t - snapshot is between
\* 0 and 6 days (0 exactly when t is a Monday) and report = snapshot - 7
\* days; all days of one Monday-to-Sunday week map to the same pair.
C5_DateResolver ==
    (op = "get_monday_dates") =>
        LET t    == op_in.day
            snap == op_out[1]
            rep  == op_out[2]
        IN  /\ IsDateString(snap) /\ IsDateString(rep)
            /\ IsMondayDay(strptime(snap))
            /\ strptime(snap) <= t
            /\ (t - strptime(snap)) \in 0 .. 6
            /\ (t = strptime(snap)) <=> IsMondayDay(t)
            /\ strptime(rep) = strptime(snap) - 7
            /\ \A t2 \in RefInstants :
                  (WeekOf(t2.day) = WeekOf(t)) => (get_monday_dates(t2) = op_out)

\* a Sunday evening resolved to the Monday six days before
C5_Witness ==
    /\ op = "get_monday_dates"
    /\ op_in = [day |-> strptime([y |-> 2024, m |-> 1, d |-> 21]), sec |-> 86399]
    /\ op_out = <<[y |-> 2024, m |-> 1, d |-> 15], [y |-> 2024, m |-> 1, d |-> 8]>>

\* C6: for every pair of dates, validate_monday_dates returns True exactly
\* when both are Mondays and snapshot - report = 7 days; in every other case
\* it fails with a validation error.
C6_MondayPairValidator ==
    (op = "validate_monday_dates" /\ IsDateString(op_in[1]) /\ IsDateString(op_in[2])) =>
        LET s == strptime(op_in[1])
            r == strptime(op_in[2])
            good == IsMondayDay(s) /\ IsMondayDay(r) /\ s - r = 7
        IN  /\ good => op_out = "True"
            /\ ~good => op_out \in {"ValueError: snapshot not a Monday",
                                    "ValueError: report not a Monday",
                                    "ValueError: report should be before snapshot",
                                    "ValueError: not exactly 7 days apart"}

\* a pair of Mondays 14 days apart was rejected
C6_Witness ==
    /\ op = "validate_monday_dates"
    /\ op_in = <<[y |-> 2024, m |-> 1, d |-> 15], [y |-> 2024, m |-> 1, d |-> 1]>>
    /\ op_out = "ValueError: not exactly 7 days apart"

(***************************************************************************)
(* SpecLoader: the four loader operations called directly, as the tests    *)
(* call them, on a staging table of arbitrary content.                     *)
(***************************************************************************)
MaxStagingRows == 2      \* rows of the initial staging table
MaxCalls       == 2      \* direct calls in one behaviour

D0 == [y |-> 2024, m |-> 1, d |-> 8]     \* Monday
D1 == [y |-> 2024, m |-> 1, d |-> 15]    \* Monday
D2 == [y |-> 2024, m |-> 1, d |-> 22]    \* Monday

Code123 == <<"0", "0", "0", "1", "2", "3">>
Code456 == <<"0", "0", "0", "4", "5", "6">>
Code789 == <<"0", "0", "0", "7", "8", "9">>

StagingRow(fn, adp, st, cc, code, desc, hire, rehire, snap) ==
    [file_number |-> fn, adp_id |-> adp, position_status |-> st,
     client_code |-> cc, home_department_code |-> code,
     home_department_description |-> desc,
     hire_date |-> hire, rehire_date |-> rehire, snapshot_date |-> snap]

Early == {Day(2023, 1, 1)}

StagingCandidates ==
    { StagingRow("001", "E1", "Active", "01200", Code123, "IT", Early, {}, {strptime(D1)}),
      \* same department code, another description
      StagingRow("002", "E2", "Active", "01200", Code123, "Info Tech", Early, {}, {strptime(D1)}),
      \* the employee of the first row a second time
      StagingRow("003", "E1", "Active", "01200", Code123, "IT", Early, {}, {strptime(D1)}),
      \* excluded client code
      StagingRow("004", "E4", "Active", "01100", Code456, "HR", Early, {}, {strptime(D1)}),
      StagingRow("005", "E5", "Terminated", "01200", Code456, "HR", Early, {}, {strptime(D1)}),
      \* no hire and no rehire date
      StagingRow("006", "E6", "Active", "01200", Code456, "HR", {}, {}, {strptime(D1)}),
      \* hired on the snapshot date
      StagingRow("007", "E7", "Active", "01200", Code456, "HR", {strptime(D1)}, {}, {strptime(D1)}),
      \* rehired after the snapshot date
      StagingRow("008", "E8", "Active", "01200", Code456, "HR", Early, {strptime(D2)}, {strptime(D1)}),
      \* no client code
      StagingRow("009", "E9", "Active", Null, Code456, "HR", Early, {}, {strptime(D1)}),
      \* no department code
      StagingRow("010", "E10", "Active", "01200", NullCode, "HR", Early, {}, {strptime(D1)}),
      \* another snapshot date
      StagingRow("011", "E11", "Active", "01200", Code123, "IT", Early, {}, {strptime(D2)}),
      StagingRow(Null, "E12", "Active", "01200", Code789, "Ops", Early, {}, {strptime(D1)}),
      \* no associate id
      StagingRow("013", Null, "Active", "01200", Code789, "Ops", Early, {}, {strptime(D1)}),
      StagingRow("014", "E14", "Active", "01300", Code789, "Ops", Early, {}, {strptime(D1)}) }

SummaryRow(code, snap, rep, n) ==
    [department_number |-> code, snapshot_date |-> snap, report_date |-> rep,
     active_count |-> n]

OldSummary == SetToBag({SummaryRow(Code456, {strptime(D2)}, {strptime(D1)}, 7)})

LoaderFrames ==
    LET r1 == StagingRow("001", "E1", "Active", "01200", Code123, "IT", Early, {}, {strptime(D1)})
        r2 == StagingRow("011", "E11", "Active", "01200", Code123, "IT", Early, {}, {strptime(D2)})
    IN  {[rows |-> << >>], [rows |-> <<r1>>], [rows |-> <<r1, r1>>], [rows |-> <<r2>>]}

ExcludedCodeLists == {{}, {"01100"}, {"01100", "01300"}}

InitLoader ==
    /\ \E rs \in SUBSET StagingCandidates :
          /\ Cardinality(rs) <= MaxStagingRows
          /\ bronze = SetToBag(rs)
    /\ silver \in {EmptyBag, OldSummary}
    /\ config_excluded \in ExcludedCodeLists
    /\ RunIdle
    /\ NoCall

\* bronze0 and silver0 keep the tables as they were before the call
LoaderCall(name, input, output) ==
    /\ ncalls < MaxCalls
    /\ ncalls' = ncalls + 1
    /\ op' = name
    /\ op_in' = input
    /\ op_out' = output
    /\ bronze0' = bronze
    /\ silver0' = silver
    /\ UNCHANGED <<pc, args, snapshot_date, report_date, raw_df, cleaned_df,
                   existing_bronze, existing_silver, exc, exit_code, error_log,
                   warnings, stmts, error_log0, config_excluded, peer>>

LoaderLoad ==
    \E df \in LoaderFrames :
        /\ LoaderCall("load_to_bronze_table", df, Len(df.rows))
        /\ bronze' = load_to_bronze_table(bronze, df)
        /\ UNCHANGED silver

LoaderCalc ==
    \E sd \in {D1, D2}, rd \in {D0, D1} :
        LET inserted == execute_headcount_calculation(bronze, sd, rd, config_excluded)
        IN  /\ LoaderCall("execute_headcount_calculation", <<sd, rd>>,
                          BagCardinality(inserted))
            /\ silver' = silver (+) inserted
            /\ UNCHANGED bronze

LoaderCheck ==
    \E sd \in {D1, D2}, table_type \in {"bronze", "silver"} :
        /\ LoaderCall("check_existing_data", <<sd, table_type>>,
              check_existing_data(IF table_type = "bronze" THEN bronze ELSE silver, sd))
        /\ UNCHANGED dbVars

LoaderDelete ==
    \E sd \in {D1, D2}, table_type \in {"bronze", "silver"} :
        \* result.rowcount: the number of rows the DELETE removed
        /\ LET tbl == IF table_type = "bronze" THEN bronze ELSE silver
           IN  LoaderCall("delete_existing_data", <<sd, table_type>>,
                  BagCardinality(tbl) - BagCardinality(delete_existing_data(tbl, sd)))
        /\ IF table_type = "bronze"
           THEN bronze' = delete_existing_data(bronze, sd) /\ UNCHANGED silver
           ELSE silver' = delete_existing_data(silver, sd) /\ UNCHANGED bronze

NextLoader == LoaderLoad \/ LoaderCalc \/ LoaderCheck \/ LoaderDelete

SpecLoader == InitLoader /\ [][NextLoader]_vars

(***************************************************************************)
(* Properties of the aggregation                                           *)
(***************************************************************************)
\* the rows the active-headcount rule counts for snapshot date S
CountedRows(tbl, S, excluded) ==
    {a \in DOMAIN tbl :
        /\ a.snapshot_date = {S}
        /\ a.position_status = "Active"
        /\ a.file_number # Null
        /\ a.client_code # Null /\ a.client_code \notin excluded
        /\ \E h \in (IF a.rehire_date = {} THEN a.hire_date ELSE a.rehire_date) : h < S}

\* the summary rows the rule asks for: one per department code with counted
\* rows, carrying the number of distinct associate ids of that department
RuleRows(tbl, S, R, excluded) ==
    LET counted == CountedRows(tbl, S, excluded)
        codes   == {a.home_department_code : a \in counted} \ {NullCode}
    IN  {SummaryRow(c, {S}, {R},
             Cardinality({a.adp_id : a \in {x \in counted : x.home_department_code = c}}
                         \ {Null}))
         : c \in codes}

\* C3: execute_headcount_calculation(S, R) inserts, for each department code
\* d, one row with snapshot_date S, report_date R and active_count = the
\* number of distinct adp_id among the staging rows of S and d that are
\* Active, have a file number, a client code outside the exclusion set and
\* an effective hire date strictly before the snapshot date; no other row
\* contributes to a count.
C3_ActiveHeadcountRule ==
    (op = "execute_headcount_calculation") =>
        silver = silver0 (+) SetToBag(RuleRows(bronze0, strptime(op_in[1]),
                                               strptime(op_in[2]), config_excluded))

\* C4: after one execution for snapshot date S on a summary table without
\* rows for S, the summary table holds at most one row per department code
\* for S, and the returned number is the number of rows inserted.
C4_OneRowPerDepartment ==
    (op = "execute_headcount_calculation" /\ check_existing_data(silver0, op_in[1]) = 0) =>
        /\ \A r \in DOMAIN silver :
              (r.snapshot_date = {strptime(op_in[1])}) =>
                  CountRows(silver, {x \in DOMAIN silver :
                      /\ x.snapshot_date = r.snapshot_date
                      /\ x.department_number = r.department_number}) = 1
        /\ op_out = BagCardinality(silver) - BagCardinality(silver0)

(***************************************************************************)
(* Spec: runs of the orchestrator, one after the other (the pipeline is a  *)
(* single synchronous process), on tables with some prior content.  Every  *)
(* storage statement is one step and may fail.                             *)
(***************************************************************************)
MaxErrorLog == 1     \* entries of the error log after which no run starts

AllFileColumns ==
    {"File Number", "Payroll Name", "Hire Date", "Rehire Date", "Position Status",
     "Home Department Code", "Home Department Description", "Clock Full Code",
     "Associate ID"}

RawRow(fn, adp, st, cc, code, desc, hire, rehire) ==
    [c \in AllFileColumns |->
        CASE c = "File Number" -> fn
          [] c = "Payroll Name" -> "name"
          [] c = "Hire Date" -> hire
          [] c = "Rehire Date" -> rehire
          [] c = "Position Status" -> st
          [] c = "Home Department Code" -> code
          [] c = "Home Department Description" -> desc
          [] c = "Clock Full Code" -> cc
          [] c = "Associate ID" -> adp]

Sheet(columns, rows) ==
    [exists |-> TRUE, suffix |-> ".xls", readable |-> TRUE,
     columns |-> columns, rows |-> rows]

Hire2023 == [y |-> 2023, m |-> 1, d |-> 1]

\* the fixture of test_monday_workflow_business_rules, shortened
RulesFile ==
    Sheet(AllFileColumns \ {"Rehire Date"},
          << RawRow("001", "EMP001", "Active", "01200", <<"1", "2", "3">>, "IT", Hire2023, NoDate),
             RawRow("002", "EMP002", "Active", "01100", <<"4", "5", "6">>, "HR", Hire2023, NoDate),
             RawRow("005", "EMP005", "Active", "01200", <<"1", "1", "2">>, "Marketing",
                    [y |-> 2024, m |-> 2, d |-> 1], NoDate) >>)

\* one department code under two descriptions
SplitFile ==
    Sheet(AllFileColumns,
          << RawRow("001", "EMP001", "Active", "01200", <<" ", "1", "2", "3">>, "IT", Hire2023, NoDate),
             RawRow("002", "EMP002", "Active", "01200", <<"1", "2", "3">>, "Info Tech", Hire2023, Garbage) >>)

\* a missing department code
NoDeptFile ==
    Sheet(AllFileColumns,
          << RawRow("001", "EMP001", "Active", "01200", NullCode, "IT", Hire2023, NoDate) >>)

\* a sheet without the required column 'Hire Date'
NoHireDateFile ==
    Sheet(AllFileColumns \ {"Hire Date"},
          << RawRow("001", "EMP001", "Active", "01200", <<"1", "2", "3">>, "IT", NoDate, NoDate) >>)
CsvFile  == [Sheet(AllFileColumns, << >>) EXCEPT !.suffix = ".csv"]

Files == {RulesFile, SplitFile, NoDeptFile, MissingFile, NoHireDateFile, CsvFile}

Tuesday      == [y |-> 2024, m |-> 1, d |-> 16]
TwoWeeksBack == [y |-> 2024, m |-> 1, d |-> 1]

\* the values of <<--snapshot-date, --report-date>>
DateArgs ==
    {<<NoDate, NoDate>>, <<NoDate, D0>>, <<Garbage, NoDate>>, <<Garbage, D0>>,
     <<D1, NoDate>>, <<D1, D0>>, <<D1, TwoWeeksBack>>, <<Tuesday, NoDate>>,
     <<D2, D1>>}
\* datetime.now(): a Wednesday morning and the last second of the Sunday
\* of the week of D1
NowInstants  == {[day |-> Day(2024, 1, 17), sec |-> 36000],
                 [day |-> Day(2024, 1, 21), sec |-> 86399]}

\* prior content: rows of the target week and of the week after
PriorBronze ==
    SetToBag({StagingRow("900", "E900", "Active", "01200", Code789, "Ops",
                         Early, {}, {strptime(D1)}),
              StagingRow("901", "E901", "Active", "01200", Code789, "Ops",
                         Early, {}, {strptime(D2)})})
PriorSilver ==
    SetToBag({SummaryRow(Code789, {strptime(D1)}, {strptime(D0)}, 4),
              SummaryRow(Code789, {strptime(D2)}, {strptime(D1)}, 1)})

Init ==
    /\ bronze \in {EmptyBag, PriorBronze}
    /\ silver \in {EmptyBag, PriorSilver}
    /\ config_excluded = DefaultExcludedCodes
    /\ RunIdle
    /\ NoCall

\* an exception raised at the current position
Raise(error) ==
    /\ exc' = [at |-> pc, err |-> error]
    /\ pc' = "except"

\* parser.parse_args() and the entry of main()
Start ==
    /\ pc = "idle"
    /\ Len(error_log) < MaxErrorLog
    /\ \E f \in Files, d \in DateArgs, force \in BOOLEAN, skip \in BOOLEAN :
          args' = [file |-> f, snapshot_date |-> d[1], report_date |-> d[2],
                   force |-> force, skip_calculation |-> skip]
    /\ pc' = "resolve"
    /\ snapshot_date' = UnboundDate
    /\ report_date' = UnboundDate
    /\ raw_df' = EmptyFrame
    /\ cleaned_df' = EmptyFrame
    /\ existing_bronze' = 0
    /\ existing_silver' = 0
    /\ exc' = NoExc
    /\ exit_code' = 0
    /\ warnings' = << >>
    /\ stmts' = << >>
    /\ bronze0' = bronze
    /\ silver0' = silver
    /\ error_log0' = error_log
    /\ UNCHANGED <<dbVars, callVars, peer, config_excluded, error_log>>

\* lines 107-125
ResolveDates ==
    /\ pc = "resolve"
    /\ \E now \in NowInstants :
          LET r == determine_dates(args, now)
          IN  /\ snapshot_date' = r.snapshot_date
              /\ report_date' = r.report_date
              /\ IF r.exc = "none"
                 THEN pc' = "extract" /\ UNCHANGED exc
                 ELSE Raise(r.exc)
    /\ UNCHANGED <<dbVars, callVars, peer, config_excluded, args, raw_df, cleaned_df,
                   existing_bronze, existing_silver, exit_code, error_log,
                   warnings, stmts, bronze0, silver0, error_log0>>

\* step 1, lines 127-130
Extract ==
    /\ pc = "extract"
    /\ LET r == read_adp_file(args.file)
           v == validate_adp_file_structure(r.df)
       IN  IF r.exc # "none"
           THEN Raise(r.exc) /\ UNCHANGED raw_df
           ELSE /\ raw_df' = r.df
                /\ IF v = "True"
                   THEN pc' = "transform" /\ UNCHANGED exc
                   ELSE Raise(v)
    /\ UNCHANGED <<dbVars, callVars, peer, config_excluded, args, snapshot_date,
                   report_date, cleaned_df, existing_bronze, existing_silver,
                   exit_code, error_log, warnings, stmts, bronze0, silver0,
                   error_log0>>

\* step 2, lines 132-135
Transform ==
    /\ pc = "transform"
    /\ LET c == clean_adp_data(raw_df, snapshot_date)
           v == validate_cleaned_data(c)
       IN  /\ cleaned_df' = c
           /\ IF v = "True"
              THEN pc' = "check_bronze" /\ UNCHANGED exc
              ELSE Raise(v)
    /\ UNCHANGED <<dbVars, callVars, peer, config_excluded, args, snapshot_date,
                   report_date, raw_df, existing_bronze, existing_silver,
                   exit_code, error_log, warnings, stmts, bronze0, silver0,
                   error_log0>>

\* step 3, line 138
CheckBronze ==
    /\ pc = "check_bronze"
    /\ \E ok \in BOOLEAN :
          IF ok
          THEN /\ existing_bronze' = check_existing_data(bronze, snapshot_date)
               /\ stmts' = Append(stmts, "check_bronze")
               /\ pc' = "check_silver"
               /\ UNCHANGED exc
          ELSE Raise("storage error") /\ UNCHANGED <<existing_bronze, stmts>>
    /\ UNCHANGED <<dbVars, callVars, peer, config_excluded, args, snapshot_date,
                   report_date, raw_df, cleaned_df, existing_silver, exit_code,
                   error_log, warnings, bronze0, silver0, error_log0>>

\* step 3, lines 139-147: the second count and the overwrite guard
CheckSilver ==
    /\ pc = "check_silver"
    /\ \E ok \in BOOLEAN :
          IF ok
          THEN LET es == check_existing_data(silver, snapshot_date)
               IN  /\ existing_silver' = es
                   /\ stmts' = Append(stmts, "check_silver")
                   /\ UNCHANGED exc
                   /\ IF OverwriteGuard(existing_bronze, es, args.force)
                      THEN /\ warnings' = Append(warnings, "Data already exists")
                           /\ pc' = "done"
                      ELSE /\ pc' = AfterGuard(existing_bronze, es, args.force)
                           /\ UNCHANGED warnings
          ELSE Raise("storage error") /\ UNCHANGED <<existing_silver, stmts, warnings>>
    /\ UNCHANGED <<dbVars, callVars, peer, config_excluded, args, snapshot_date,
                   report_date, raw_df, cleaned_df, existing_bronze, exit_code,
                   error_log, bronze0, silver0, error_log0>>

\* step 4, lines 151-152
DeleteSilver ==
    /\ pc = "delete_silver"
    /\ \E ok \in BOOLEAN :
          IF ok
          THEN /\ silver' = delete_existing_data(silver, snapshot_date)
               /\ stmts' = Append(stmts, "delete_silver")
               /\ pc' = IF existing_bronze > 0 THEN "delete_bronze" ELSE "load"
               /\ UNCHANGED exc
          ELSE Raise("storage error") /\ UNCHANGED <<silver, stmts>>
    /\ UNCHANGED <<bronze, callVars, peer, config_excluded, args, snapshot_date,
                   report_date, raw_df, cleaned_df, existing_bronze,
                   existing_silver, exit_code, error_log, warnings, bronze0,
                   silver0, error_log0>>

\* step 4, lines 153-154
DeleteBronze ==
    /\ pc = "delete_bronze"
    /\ \E ok \in BOOLEAN :
          IF ok
          THEN /\ bronze' = delete_existing_data(bronze, snapshot_date)
               /\ stmts' = Append(stmts, "delete_bronze")
               /\ pc' = "load"
               /\ UNCHANGED exc
          ELSE Raise("storage error") /\ UNCHANGED <<bronze, stmts>>
    /\ UNCHANGED <<silver, callVars, peer, config_excluded, args, snapshot_date,
                   report_date, raw_df, cleaned_df, existing_bronze,
                   existing_silver, exit_code, error_log, warnings, bronze0,
                   silver0, error_log0>>

\* step 5, lines 157-158, and the else branch of step 6
Load ==
    /\ pc = "load"
    /\ \E ok \in BOOLEAN :
          IF ok
          THEN /\ bronze' = load_to_bronze_table(bronze, cleaned_df)
               /\ stmts' = Append(stmts, "load")
               /\ pc' = IF args.skip_calculation THEN "done" ELSE "calc"
               /\ UNCHANGED exc
          ELSE Raise("storage error") /\ UNCHANGED <<bronze, stmts>>
    /\ UNCHANGED <<silver, callVars, peer, config_excluded, args, snapshot_date,
                   report_date, raw_df, cleaned_df, existing_bronze,
                   existing_silver, exit_code, error_log, warnings, bronze0,
                   silver0, error_log0>>

\* step 6, lines 161-164
Calc ==
    /\ pc = "calc"
    /\ \E ok \in BOOLEAN :
          IF ok
          THEN /\ silver' = silver (+) execute_headcount_calculation(
                                bronze, snapshot_date, report_date, config_excluded)
               /\ stmts' = Append(stmts, "calc")
               /\ pc' = "done"
               /\ UNCHANGED exc
          ELSE Raise("storage error") /\ UNCHANGED <<silver, stmts>>
    /\ UNCHANGED <<bronze, callVars, peer, config_excluded, args, snapshot_date,
                   report_date, raw_df, cleaned_df, existing_bronze,
                   existing_silver, exit_code, error_log, warnings, bronze0,
                   silver0, error_log0>>

\* lines 168-172
Except ==
    /\ pc = "except"
    /\ LET h == handler(snapshot_date, exc.err, error_log)
       IN  /\ error_log' = h.error_log
           /\ exit_code' = h.exit_code
           /\ exc' = IF h.escaped = "none" THEN exc
                     ELSE [at |-> "except", err |-> h.escaped]
    /\ pc' = "done"
    /\ UNCHANGED <<dbVars, callVars, peer, config_excluded, args, snapshot_date,
                   report_date, raw_df, cleaned_df, existing_bronze,
                   existing_silver, warnings, stmts, bronze0, silver0,
                   error_log0>>

\* the process has ended: its locals are gone, the tables and the error
\* log stay
Exit ==
    /\ pc = "done"
    /\ pc' = "idle"
    /\ args' = NoArgs
    /\ snapshot_date' = UnboundDate
    /\ report_date' = UnboundDate
    /\ raw_df' = EmptyFrame
    /\ cleaned_df' = EmptyFrame
    /\ existing_bronze' = 0
    /\ existing_silver' = 0
    /\ exc' = NoExc
    /\ exit_code' = 0
    /\ warnings' = << >>
    /\ stmts' = << >>
    /\ bronze0' = EmptyBag
    /\ silver0' = EmptyBag
    /\ error_log0' = << >>
    /\ UNCHANGED <<dbVars, callVars, peer, config_excluded, error_log>>

Next ==
    \/ Start \/ ResolveDates \/ Extract \/ Transform
    \/ CheckBronze \/ CheckSilver \/ DeleteSilver \/ DeleteBronze
    \/ Load \/ Calc \/ Except \/ Exit

Spec == Init /\ [][Next]_vars

(***************************************************************************)
(* Properties of the orchestrator                                          *)
(***************************************************************************)
IsWrite(stmt) == stmt \in {"delete_silver", "delete_bronze", "load", "calc"}
Writes(ss)    == SelectSeq(ss, IsWrite)
Done(stmt)    == \E i \in 1 .. Len(stmts) : stmts[i] = stmt
Before(a, b)  == \E i, j \in 1 .. Len(stmts) : i < j /\ stmts[i] = a /\ stmts[j] = b

\* the rows of table tbl for the date text d, and their number
RowsFor(tbl, d) == {r \in DOMAIN tbl : r.snapshot_date = {strptime(d)}}
NumFor(tbl, d)  == CountRows(tbl, RowsFor(tbl, d))

\* C1: when the existence check of a run for date D finds a staging row or
\* a summary row for D and --force was not given, the run logs a warning and
\* stops normally (no exception, exit code 0, no error-log entry) without a
\* delete or an insert: both tables are as they were before the run.
C1_OverwriteGuard ==
    ( /\ Done("check_bronze") /\ Done("check_silver")
      /\ ~args.force
      /\ RowsFor(bronze0, snapshot_date) \cup RowsFor(silver0, snapshot_date) # {} )
    => /\ pc = "done"
       /\ warnings = <<"Data already exists">>
       /\ exc = NoExc
       /\ exit_code = 0
       /\ error_log = error_log0
       /\ Writes(stmts) = << >>
       /\ bronze = bronze0
       /\ silver = silver0

\* a run stopped by the guard on a date that has staging rows only
C1_Witness ==
    /\ pc = "done"
    /\ ~args.force
    /\ warnings # << >>
    /\ existing_bronze > 0
    /\ existing_silver = 0
    /\ bronze = bronze0

\* C2: a successful run with --force and without --skip-calculation for
\* date D deletes the old rows for D before it reinserts, and ends with the
\* staging and summary row counts for D of one fresh run of the same file on
\* tables without rows for D, whatever the tables held before (the result of
\* an earlier forced run included).
FreshStaging == BagOfSeq(clean_adp_data(read_adp_file(args.file).df, snapshot_date).rows)
FreshSummary ==
    execute_headcount_calculation(FreshStaging, snapshot_date, report_date, config_excluded)

C2_ForcedRerunIdempotent ==
    (pc = "done" /\ args.force /\ ~args.skip_calculation /\ exc = NoExc) =>
        /\ NumFor(bronze, snapshot_date) = Len(args.file.rows)
        /\ NumFor(bronze, snapshot_date) = BagCardinality(FreshStaging)
        /\ NumFor(silver, snapshot_date) = BagCardinality(FreshSummary)
        /\ RowsFor(bronze0, snapshot_date) # {} => Before("delete_bronze", "load")
        /\ RowsFor(silver0, snapshot_date) # {} => Before("delete_silver", "load")

\* a forced run that found the rows of an earlier run of the same file
C2_Witness ==
    /\ pc = "done" /\ args.force /\ ~args.skip_calculation /\ exc = NoExc
    /\ existing_bronze = Len(args.file.rows)
    /\ existing_bronze > 1
    /\ existing_silver > 0
    /\ Done("delete_bronze") /\ Done("delete_silver") /\ Done("calc")
    /\ bronze = bronze0

\* C7 as stated: with --snapshot-date alone the report date is the snapshot
\* date minus 7 days and the run goes on to extraction without Monday-pair
\* validation, also when the snapshot date is not a Monday.
C7_PartialOverrideUnvalidated ==
    ( /\ pc \notin {"idle", "resolve"}
      /\ IsDateString(args.snapshot_date)
      /\ args.report_date = NoDate )
    => /\ exc.at # "resolve"
       /\ report_date = strftime(strptime(args.snapshot_date) - 7)

\* C7 (amended): with --snapshot-date alone the report date is the snapshot
\* date minus 7 days and the pair is validated as a pair given in full is: a
\* snapshot date that is not a Monday is rejected by the validation before
\* extraction, a Monday goes on to extraction; a pair given in full goes on
\* exactly when it is a pair of Mondays 7 days apart.
C7_PartialOverrideValidated ==
    /\ ( /\ pc \notin {"idle", "resolve"}
         /\ IsDateString(args.snapshot_date)
         /\ args.report_date = NoDate )
       => /\ report_date = strftime(strptime(args.snapshot_date) - 7)
          /\ IsMondayDay(strptime(args.snapshot_date)) => exc.at # "resolve"
          /\ ~IsMondayDay(strptime(args.snapshot_date)) =>
                /\ exc = [at |-> "resolve", err |-> "ValueError: snapshot not a Monday"]
                /\ raw_df = EmptyFrame
                /\ stmts = << >>
    /\ ( /\ pc \notin {"idle", "resolve"}
         /\ IsDateString(args.snapshot_date)
         /\ IsDateString(args.report_date) )
       => ( exc.at # "resolve" <=>
              /\ IsMondayDay(strptime(args.snapshot_date))
              /\ IsMondayDay(strptime(args.report_date))
              /\ strptime(args.snapshot_date) - strptime(args.report_date) = 7 )

\* --snapshot-date 2024-01-16 (a Tuesday) alone ended the run with exit code 1
C7_Witness ==
    /\ pc = "done"
    /\ args.snapshot_date = Tuesday /\ args.report_date = NoDate
    /\ exc = [at |-> "resolve", err |-> "ValueError: snapshot not a Monday"]
    /\ exit_code = 1

\* C8: every failure of a run, the date resolution included, is caught at
\* the orchestrator boundary, appends exactly one entry to the error log
\* and ends the process with exit code 1.
C8_ErrorJournal ==
    (pc = "done" /\ exc # NoExc) =>
        /\ exit_code = 1
        /\ Len(error_log) = Len(error_log0) + 1
        /\ exc.at # "except"

\* the inputs that date validation, file reading or structure validation
\* must refuse
InvalidDatesGiven(a) ==
    /\ a.snapshot_date # NoDate
    /\ \/ ~IsDateString(a.snapshot_date)
       \/ ~IsMondayDay(strptime(a.snapshot_date))
       \/ /\ a.report_date # NoDate
          /\ \/ ~IsDateString(a.report_date)
             \/ ~IsMondayDay(strptime(a.report_date))
             \/ strptime(a.snapshot_date) - strptime(a.report_date) # 7
InvalidFile(f) ==
    \/ ~f.exists
    \/ f.suffix \notin {".xls", ".xlsx"}
    \/ ~f.readable
    \/ \E c \in {"File Number", "Payroll Name", "Hire Date", "Position Status",
                 "Home Department Code", "Clock Full Code", "Associate ID"} :
          c \notin f.columns

C10_NoRollback ==
    /\ (exc.at = "calc") =>
          /\ pc \in {"except", "done"}
          /\ pc = "done" => exit_code = 1
          /\ Len(cleaned_df.rows) = Len(args.file.rows)
          /\ NumFor(bronze, snapshot_date) = Len(args.file.rows)
          /\ NumFor(silver, snapshot_date) = 0
    /\ (exc.at = "load" /\ args.force) =>
          /\ NumFor(bronze, snapshot_date) = 0
          /\ NumFor(silver, snapshot_date) = 0
          /\ pc = "done" => exit_code = 1
    /\ (pc \notin {"idle", "resolve"} /\ IsDateString(snapshot_date)) =>
          /\ (Done("delete_bronze") /\ ~Done("load")) => NumFor(bronze, snapshot_date) = 0
          /\ (Done("delete_silver") /\ ~Done("calc")) => NumFor(silver, snapshot_date) = 0
          /\ Done("load") => NumFor(bronze, snapshot_date) = Len(args.file.rows)

\* a forced rerun whose load failed after both deletes
C10_Witness ==
    /\ pc = "done"
    /\ args.force
    /\ exc = [at |-> "load", err |-> "storage error"]
    /\ existing_bronze > 0 /\ existing_silver > 0
    /\ Done("delete_bronze") /\ Done("delete_silver")
    /\ NumFor(bronze, snapshot_date) = 0
    /\ NumFor(silver, snapshot_date) = 0

(***************************************************************************)
(* The loader operations as bag operations (SpecLoader).                   *)
(***************************************************************************)
\* the rows of a DataFrame, each with the number of times the frame holds it
FrameRows(df) == BagOfSeq(df.rows)

\* the table the last direct call named, after it and before it
CalledTable  == IF op_in[2] = "bronze" THEN bronze ELSE silver
CalledTable0 == IF op_in[2] = "bronze" THEN bronze0 ELSE silver0
OtherTable   == IF op_in[2] = "bronze" THEN silver ELSE bronze
OtherTable0  == IF op_in[2] = "bronze" THEN silver0 ELSE bronze0

\* C12: load_to_bronze_table called with a DataFrame of n rows adds exactly
\* those n rows to the staging table, leaves every row already there (rows
\* of the same snapshot date included) and returns n; a second call with the
\* same rowset right after the first leaves 2*n more rows than before the
\* first.
C12_LoadAppends ==
    [][ op' = "load_to_bronze_table" =>
          LET n == Len(op_in'.rows)
          IN  /\ op_out' = n
              /\ BagCardinality(bronze') = BagCardinality(bronze) + n
              /\ \A r \in DOMAIN bronze' \cup DOMAIN bronze :
                    CopiesIn(r, bronze') = CopiesIn(r, bronze) + CopiesIn(r, FrameRows(op_in'))
              /\ silver' = silver
              /\ (op = "load_to_bronze_table" /\ op_in = op_in') =>
                    /\ BagCardinality(bronze') = BagCardinality(bronze0) + 2 * n
                    /\ \A r \in DOMAIN bronze' :
                          CopiesIn(r, bronze') =
                             CopiesIn(r, bronze0) + 2 * CopiesIn(r, FrameRows(op_in')) ]_vars

\* a second load of the same two-row frame onto a table that held its row
C12_Witness ==
    /\ op = "load_to_bronze_table"
    /\ ncalls = 2
    /\ Len(op_in.rows) = 2
    /\ BagCardinality(bronze0) = 3
    /\ BagCardinality(bronze) = 5
    /\ \E r \in DOMAIN bronze : CopiesIn(r, bronze) = 5

\* C13: delete_existing_data(D, T) removes exactly the rows of T whose
\* snapshot_date is D and returns their number, the number
\* check_existing_data(D, T) gave on the table before; afterwards
\* check_existing_data(D, T) is 0; rows of other dates and the other table
\* are as before; check_existing_data changes no row.
C13_DeleteFrame ==
    /\ op = "delete_existing_data" =>
          LET S == {strptime(op_in[1])}
          IN  /\ \A r \in DOMAIN CalledTable0 :
                    CopiesIn(r, CalledTable) =
                       IF r.snapshot_date = S THEN 0 ELSE CopiesIn(r, CalledTable0)
              /\ DOMAIN CalledTable \subseteq DOMAIN CalledTable0
              /\ op_out = check_existing_data(CalledTable0, op_in[1])
              /\ check_existing_data(CalledTable, op_in[1]) = 0
              /\ OtherTable = OtherTable0
    /\ op = "check_existing_data" => bronze = bronze0 /\ silver = silver0

\* a delete that removed rows and left rows of another date
C13_Witness ==
    /\ op = "delete_existing_data"
    /\ op_in[2] = "bronze"
    /\ op_out >= 1
    /\ bronze # EmptyBag
    /\ silver # EmptyBag

\* the rows of tables t1 and t2 that are not rows of the date text d
OffDateRows(t1, t2, d) ==
    {r \in DOMAIN t1 \cup DOMAIN t2 :
        ~IsDateString(d) \/ r.snapshot_date # {strptime(d)}}

\* C14: at every point of a run for date D, every staging and summary row
\* of another date is in its table as often as when the run started, with or
\* without --force and --skip-calculation; and once the run has loaded, the
\* staging table holds for D the rows of the file, so runs of one file for
\* two dates leave each date the staging count of a single run.
C14_OtherDatesUntouched ==
    pc # "idle" =>
        /\ \A r \in OffDateRows(bronze0, bronze, snapshot_date) :
              CopiesIn(r, bronze) = CopiesIn(r, bronze0)
        /\ \A r \in OffDateRows(silver0, silver, snapshot_date) :
              CopiesIn(r, silver) = CopiesIn(r, silver0)
        /\ Done("load") => NumFor(bronze, snapshot_date) = Len(args.file.rows)

\* the second of two runs of the same file, for the week after the first
C14_Witness ==
    /\ pc = "done"
    /\ Done("load")
    /\ args.file = RulesFile
    /\ snapshot_date = D2
    /\ NumFor(bronze, D1) = 3
    /\ NumFor(bronze, D2) = 3
    /\ NumFor(bronze0, D1) = 3

(***************************************************************************)
(* SpecRace: two orchestrator processes on the same tables, neither with   *)
(* --force.  The first is main() as in Spec; the second, peer, runs the    *)
(* same statements of main() on its own locals.  Each storage statement is *)
(* one committed step, so the steps of the two processes interleave.       *)
(***************************************************************************)
RaceFiles == {RulesFile, SplitFile}

\* a staging row of the week after the target week only
LaterBronze ==
    SetToBag({StagingRow("901", "E901", "Active", "01200", Code789, "Ops",
                         Early, {}, {strptime(D2)})})

InitRace ==
    /\ bronze \in {EmptyBag, LaterBronze}
    /\ silver = EmptyBag
    /\ config_excluded = DefaultExcludedCodes
    /\ RunIdle
    /\ NoCall

\* the first process: a command line without --force for the week of D1
StartRace ==
    /\ Start
    /\ ~args'.force
    /\ args'.file \in RaceFiles
    /\ <<args'.snapshot_date, args'.report_date>> \in {<<NoDate, NoDate>>, <<D1, D0>>}

PeerUnchanged == UNCHANGED <<runVars, callVars, config_excluded>>

\* lines 91-135 of the second process, for a readable file and valid dates:
\* it touches no table
PeerStart ==
    /\ peer.pc = "idle"
    /\ \E f \in RaceFiles, skip \in BOOLEAN :
          LET a == [file |-> f, snapshot_date |-> D1, report_date |-> D0,
                    force |-> FALSE, skip_calculation |-> skip]
              r == determine_dates(a, [day |-> Day(2024, 1, 17), sec |-> 36000])
          IN  peer' = [peer EXCEPT
                         !.pc = "check_bronze", !.file = f,
                         !.skip_calculation = skip,
                         !.snapshot_date = r.snapshot_date,
                         !.report_date = r.report_date,
                         !.cleaned_df = clean_adp_data(read_adp_file(f).df,
                                                       r.snapshot_date)]
    /\ UNCHANGED dbVars
    /\ PeerUnchanged

\* line 138
PeerCheckBronze ==
    /\ peer.pc = "check_bronze"
    /\ \E ok \in BOOLEAN :
          peer' = IF ok
                  THEN [peer EXCEPT
                          !.existing_bronze = check_existing_data(bronze, peer.snapshot_date),
                          !.stmts = Append(peer.stmts, "check_bronze"),
                          !.pc = "check_silver"]
                  ELSE [peer EXCEPT !.pc = "failed"]
    /\ UNCHANGED dbVars
    /\ PeerUnchanged

\* lines 139-147
PeerCheckSilver ==
    /\ peer.pc = "check_silver"
    /\ \E ok \in BOOLEAN :
          LET es == check_existing_data(silver, peer.snapshot_date)
          IN  peer' = IF ok
                      THEN [peer EXCEPT
                              !.existing_silver = es,
                              !.stmts = Append(peer.stmts, "check_silver"),
                              !.pc = IF OverwriteGuard(peer.existing_bronze, es, peer.force)
                                     THEN "done"
                                     ELSE AfterGuard(peer.existing_bronze, es, peer.force)]
                      ELSE [peer EXCEPT !.pc = "failed"]
    /\ UNCHANGED dbVars
    /\ PeerUnchanged

\* lines 157-158
PeerLoad ==
    /\ peer.pc = "load"
    /\ \E ok \in BOOLEAN :
          IF ok
          THEN /\ bronze' = load_to_bronze_table(bronze, peer.cleaned_df)
               /\ peer' = [peer EXCEPT
                             !.stmts = Append(peer.stmts, "load"),
                             !.pc = IF peer.skip_calculation THEN "done" ELSE "calc"]
          ELSE /\ peer' = [peer EXCEPT !.pc = "failed"]
               /\ UNCHANGED bronze
    /\ UNCHANGED silver
    /\ PeerUnchanged

\* lines 161-164
PeerCalc ==
    /\ peer.pc = "calc"
    /\ \E ok \in BOOLEAN :
          IF ok
          THEN /\ silver' = silver (+) execute_headcount_calculation(
                                bronze, peer.snapshot_date, peer.report_date,
                                config_excluded)
               /\ peer' = [peer EXCEPT
                             !.stmts = Append(peer.stmts, "calc"), !.pc = "done"]
          ELSE /\ peer' = [peer EXCEPT !.pc = "failed"]
               /\ UNCHANGED silver
    /\ UNCHANGED bronze
    /\ PeerUnchanged

NextRace ==
    \/ StartRace \/ ResolveDates \/ Extract \/ Transform
    \/ CheckBronze \/ CheckSilver \/ Load \/ Calc \/ Except \/ Exit
    \/ PeerStart \/ PeerCheckBronze \/ PeerCheckSilver \/ PeerLoad \/ PeerCalc

SpecRace == InitRace /\ [][NextRace]_vars

\* both processes ran for the same date and file, both found no row for it,
\* both loaded and aggregated, and both have ended
RaceRan ==
    /\ pc = "done" /\ exc = NoExc
    /\ peer.pc = "done"
    /\ ~args.force /\ ~peer.force
    /\ snapshot_date = peer.snapshot_date
    /\ args.file = peer.file
    /\ existing_bronze = 0 /\ existing_silver = 0
    /\ peer.existing_bronze = 0 /\ peer.existing_silver = 0
    /\ stmts = <<"check_bronze", "check_silver", "load", "calc">>
    /\ peer.stmts = stmts

\* the summary rows of table tbl for date text d and department code
SummaryRowsOf(tbl, d, code) ==
    CountRows(tbl, {r \in RowsFor(tbl, d) : r.department_number = code})

\* C11: two runs for the same date D, both without --force, on tables with
\* no row for D can both pass the existence checks before either loads;
\* both then load and aggregate, and the tables end with twice the staging
\* rows of one run and two summary rows per department.
C11_CheckThenInsertRace ==
    RaceRan =>
        /\ NumFor(bronze, snapshot_date) = 2 * Len(args.file.rows)
        /\ \A r \in RowsFor(silver, snapshot_date) :
              SummaryRowsOf(silver, snapshot_date, r.department_number) = 2

\* the race on a file whose department codes have one description each
C11_RaceReached == RaceRan /\ args.file = RulesFile /\ silver # EmptyBag

\* the same statement for the files in which no department code has two
\* descriptions
C11_RaceWithoutSplit == args.file # SplitFile => C11_CheckThenInsertRace

(***************************************************************************)
(* SpecTransform: clean_adp_data and validate_cleaned_data called          *)
(* directly, as the tests of test_transform.py call them.                  *)
(***************************************************************************)
MaxCodeLen      == 7     \* characters of a raw department code
MaxValidateRows == 2     \* rows of a frame handed to the validator

CodeChars == {"1", " ", "-"}
RawCodes  == UNION {[1 .. n -> CodeChars] : n \in 0 .. MaxCodeLen} \cup {NullCode}

\* a one-row sheet with the given department code cell
CodeFrame(code) ==
    [columns |-> AllFileColumns,
     rows    |-> << RawRow("001", "EMP001", "Active", "01200", code, "IT",
                           Hire2023, NoDate) >>]

ValidatorColumns == {"file_number", "adp_id", "snapshot_date", "home_department_code"}
SnapshotDay == strptime(D1)
ValidatorRows ==
    [file_number : {"001", Null}, adp_id : {"EMP001"},
     snapshot_date : {{SnapshotDay}},
     home_department_code :
        {NullCode, Code123, <<"1", "2", "3", "4", "5">>,
         <<"1", "2", "3", "4", "5", "6", "7">>}]

\* a column of NaN only is float64, a column with a text in it is object;
\* a column of None only is object as well
CodeDtypes(rows) ==
    IF rows # << >> /\ \A i \in 1 .. Len(rows) : rows[i].home_department_code = NullCode
    THEN {"object", "float64"}
    ELSE {"object"}

InitTransform ==
    /\ bronze = EmptyBag
    /\ silver = EmptyBag
    /\ config_excluded = DefaultExcludedCodes
    /\ RunIdle
    /\ NoCall

TransformCall(name, input, output) ==
    /\ op = "none"
    /\ op' = name
    /\ op_in' = input
    /\ op_out' = output
    /\ ncalls' = ncalls + 1
    /\ UNCHANGED <<dbVars, runVars, config_excluded, peer>>

CallCleanAdpData ==
    \E code \in RawCodes :
        TransformCall("clean_adp_data", code, clean_adp_data(CodeFrame(code), D1))

CallValidateCleanedData ==
    \E cols \in SUBSET ValidatorColumns, n \in 0 .. MaxValidateRows :
        \E rows \in [1 .. n -> ValidatorRows] :
            \E dtype \in CodeDtypes(rows) :
                LET df == [columns |-> cols, rows |-> rows, code_dtype |-> dtype]
                IN  TransformCall("validate_cleaned_data", df, validate_cleaned_data(df))

NextTransform == CallCleanAdpData \/ CallValidateCleanedData

SpecTransform == InitTransform /\ [][NextTransform]_vars

\* ---- what the texts of the claims say, written without the model's own
\* ---- string functions
Zeros(n) == [i \in 1 .. n |-> "0"]
LeftPadded(cs) == Zeros(6 - Len(cs)) \o cs

\* cs without its leading and trailing blanks
Trimmed(cs) ==
    LET I == {i \in 1 .. Len(cs) : cs[i] # " "}
    IN  IF I = {} THEN << >>
        ELSE LET lo == CHOOSE i \in I : \A j \in I : i <= j
                 hi == CHOOSE i \in I : \A j \in I : j <= i
             IN  [k \in 1 .. hi - lo + 1 |-> cs[lo + k - 1]]

CleanedCode == op_out.rows[1].home_department_code

\* C15 as stated: for every input text the cleaned code has 6 characters,
\* a shorter input left-padded with '0', an input of 6 unchanged, a longer
\* input cut to its first 6 characters, and the cleaned frame passes the
\* length check of validate_cleaned_data.
C15_CodeNormalisedRaw ==
    (op = "clean_adp_data" /\ op_in # NullCode) =>
        /\ Len(CleanedCode) = 6
        /\ CleanedCode = IF Len(op_in) < 6 THEN LeftPadded(op_in)
                         ELSE [k \in 1 .. 6 |-> op_in[k]]
        /\ validate_cleaned_data(op_out) = "True"

\* C15 amended: the cleaned code has 6 characters for every input text and
\* for a missing cell; with t the input without its leading and trailing
\* blanks: t shorter than 6 is filled with '0' to 6 characters, the zeros on
\* the left, after the sign when t starts with one; t of 6 characters is
\* kept; a longer t is cut to its first 6 characters; a missing cell becomes
\* "000nan"; the cleaned frame passes the validator.
C15_CodeNormalised ==
    op = "clean_adp_data" =>
        /\ Len(CleanedCode) = 6
        /\ validate_cleaned_data(op_out) = "True"
        /\ op_in = NullCode => CleanedCode = <<"0", "0", "0", "n", "a", "n">>
        /\ op_in # NullCode =>
              LET t == Trimmed(op_in)
              IN  CleanedCode =
                     IF Len(t) >= 6 THEN [k \in 1 .. 6 |-> t[k]]
                     ELSE IF t # << >> /\ t[1] = "-"
                     THEN <<"-">> \o Zeros(6 - Len(t)) \o Tail(t)
                     ELSE LeftPadded(t)

\* a short code between blanks: "  1 " becomes "000001"
C15_Witness ==
    /\ op = "clean_adp_data"
    /\ op_in = <<" ", " ", "1", " ">>
    /\ CleanedCode = <<"0", "0", "0", "0", "0", "1">>

IsValueError(out) ==
    out \in {"ValueError: Missing required columns after cleaning",
             "ValueError: invalid department codes"}

\* C16: validate_cleaned_data raises a validation error exactly when one of
\* file_number, adp_id, snapshot_date is not a column or some non-null
\* department code has a length other than 6; nulls in the three required
\* columns do not make it fail; in every other case it returns True.
C16_Validator ==
    op = "validate_cleaned_data" =>
        LET df      == op_in
            missing == ~({"file_number", "adp_id", "snapshot_date"} \subseteq df.columns)
            badlen  == /\ "home_department_code" \in df.columns
                       /\ \E i \in 1 .. Len(df.rows) :
                             /\ df.rows[i].home_department_code # NullCode
                             /\ Len(df.rows[i].home_department_code) # 6
        IN  /\ IsValueError(op_out) <=> (missing \/ badlen)
            /\ ~(missing \/ badlen) => op_out = "True"

\* the same statement for frames whose department code column is text
C16_TextColumn == (op = "validate_cleaned_data" /\ op_in.code_dtype = "object") => C16_Validator

\* a frame with nulls in the required columns and in a text code column
C16_NullsAccepted ==
    /\ op = "validate_cleaned_data"
    /\ op_out = "True"
    /\ Len(op_in.rows) = 2
    /\ op_in.rows[1].file_number = Null
    /\ op_in.rows[1].home_department_code = NullCode
    /\ op_in.rows[2].home_department_code = Code123

(***************************************************************************)
(* scripts/billing/process_clickup_billing.py.  A duration text is a       *)
(* sequence of characters, MissingText for a NaN cell.  A decimal number   *)
(* is [m, k], the value m / 10^k, kept without trailing zeros, so that k   *)
(* is its number of decimal places.                                        *)
(***************************************************************************)
MissingText == <<Null>>

RECURSIVE Dec(_, _)
Dec(m, k) == IF k > 0 /\ m % 10 = 0 THEN Dec(m \div 10, k - 1) ELSE [m |-> m, k |-> k]

\* str.split(sep)
RECURSIVE split(_, _)
split(cs, sep) ==
    LET I == {i \in 1 .. Len(cs) : cs[i] = sep}
    IN  IF I = {} THEN <<cs>>
        ELSE LET i == CHOOSE x \in I : \A y \in I : x <= y
             IN  <<SubSeq(cs, 1, i - 1)>> \o split(SubSeq(cs, i + 1, Len(cs)), sep)

IsDigit(c) == c \in {"0", "1", "2", "3", "4", "5", "6", "7", "8", "9"}
DigitVal(c) ==
    CASE c = "0" -> 0 [] c = "1" -> 1 [] c = "2" -> 2 [] c = "3" -> 3 [] c = "4" -> 4
      [] c = "5" -> 5 [] c = "6" -> 6 [] c = "7" -> 7 [] c = "8" -> 8 [] c = "9" -> 9

RECURSIVE DigitsValue(_)
DigitsValue(ds) ==
    IF ds = << >> THEN 0
    ELSE 10 * DigitsValue(SubSeq(ds, 1, Len(ds) - 1)) + DigitVal(ds[Len(ds)])

\* a text without its sign, and the sign
Unsigned(s) == IF s # << >> /\ Head(s) \in {"+", "-"} THEN Tail(s) ELSE s
SignOf(s)   == IF s # << >> /\ Head(s) = "-" THEN -1 ELSE 1

\* int(text): blanks around, an optional sign, digits; ValueError otherwise
py_int(cs) ==
    LET body == Unsigned(strip(cs))
        ok   == body # << >> /\ \A i \in 1 .. Len(body) : IsDigit(body[i])
    IN  [ok |-> ok, v |-> IF ok THEN SignOf(strip(cs)) * DigitsValue(body) ELSE 0]

\* float(text) for decimal notation: blanks around, an optional sign, digits
\* with at most one point and at least one digit; ValueError otherwise
py_float(cs) ==
    LET body   == Unsigned(strip(cs))
        points == {i \in 1 .. Len(body) : body[i] = "."}
        digits == SelectSeq(body, IsDigit)
        ok     == /\ Cardinality(points) <= 1
                  /\ digits # << >>
                  /\ \A i \in 1 .. Len(body) : IsDigit(body[i]) \/ body[i] = "."
        places == IF points = {} THEN 0 ELSE Len(body) - (CHOOSE i \in points : TRUE)
    IN  [ok |-> ok,
         v  |-> IF ok THEN Dec(SignOf(strip(cs)) * DigitsValue(digits), places)
                ELSE Dec(0, 0)]

\* round(hours + minutes / 60, 2): the nearest hundredth (a minute count
\* over 60 is never halfway between two hundredths)
round_hours(hours, minutes) ==
    Dec((2 * (6000 * hours + 100 * minutes) + 60) \div 120, 2)

\* parse_duration_to_decimal, lines 26-53
parse_duration_to_decimal(duration_str) ==
    IF duration_str = MissingText \/ duration_str = << >> THEN Dec(0, 0)
    ELSE LET s     == strip(duration_str)
             parts == split(s, ":")
         IN  IF Len(parts) >= 2
             THEN IF py_int(parts[1]).ok /\ py_int(parts[2]).ok
                  THEN round_hours(py_int(parts[1]).v, py_int(parts[2]).v)
                  ELSE Dec(0, 0)
             ELSE IF py_float(s).ok THEN py_float(s).v ELSE Dec(0, 0)

(***************************************************************************)
(* SpecDuration: the duration parser applied to the texts of the column    *)
(* 'Time Tracked Text'.                                                    *)
(***************************************************************************)
MaxDurationLen == 5     \* characters of a duration text

DurationChars == {"0", "1", "3", ":", "-", ".", " ", "x"}
DurationTexts ==
    UNION {[1 .. n -> DurationChars] : n \in 0 .. MaxDurationLen} \cup {MissingText}

InitDuration ==
    /\ bronze = EmptyBag
    /\ silver = EmptyBag
    /\ config_excluded = DefaultExcludedCodes
    /\ RunIdle
    /\ NoCall

\* line 85: the Billable Hours of one row of the export
CallParseDuration ==
    /\ op = "none"
    /\ \E text \in DurationTexts :
          /\ op' = "parse_duration_to_decimal"
          /\ op_in' = text
          /\ op_out' = parse_duration_to_decimal(text)
    /\ ncalls' = ncalls + 1
    /\ UNCHANGED <<dbVars, runVars, config_excluded, peer>>

NextDuration == CallParseDuration

SpecDuration == InitDuration /\ [][NextDuration]_vars

\* C17: the billable hours of a record are never negative, whatever the
\* duration text, texts with a leading minus sign included.
C17_HoursNonNegative ==
    op = "parse_duration_to_decimal" => op_out.m >= 0

\* a text of the shape H:MM of digits
IsHMM(t) ==
    /\ Len(t) = 4 /\ t[2] = ":"
    /\ IsDigit(t[1]) /\ IsDigit(t[3]) /\ IsDigit(t[4])

\* C18: the parser returns decimal hours with at most 2 decimal places for
\* every text; H:MM gives H + MM/60 to the nearest hundredth, a third part
\* after a second colon changes nothing, and an empty or missing text gives
\* 0.0.
C18_DurationParser ==
    op = "parse_duration_to_decimal" =>
        /\ op_out.k <= 2
        /\ op_in \in {<< >>, MissingText} => op_out = Dec(0, 0)
        /\ IsHMM(op_in) =>
              LET exact  == 6000 * DigitVal(op_in[1])
                              + 100 * (10 * DigitVal(op_in[3]) + DigitVal(op_in[4]))
                  result == IF op_out.k = 2 THEN op_out.m
                            ELSE IF op_out.k = 1 THEN 10 * op_out.m ELSE 100 * op_out.m
              IN  /\ 60 * result - exact <= 30
                  /\ exact - 60 * result <= 30
        /\ (Len(op_in) = 5 /\ op_in[2] = ":" /\ op_in[4] = ":") =>
              op_out = parse_duration_to_decimal(SubSeq(op_in, 1, 3))

\* the same statement for the texts with a colon
C18_ColonTexts ==
    (op = "parse_duration_to_decimal" /\ \E i \in 1 .. Len(op_in) : op_in[i] = ":")
        => C18_DurationParser

\* the parser on "1:30"
C18_HalfPastOne ==
    /\ op = "parse_duration_to_decimal"
    /\ op_in = <<"1", ":", "3", "0">>
    /\ op_out = [m |-> 15, k |-> 1]

(***************************************************************************)
(* The billing data set and the report.  Money is in cents, a rate in      *)
(* cents per hour; a NaN amount or rate is the empty set, a number n the   *)
(* set {n}.  Of a row the model keeps the category, the client and the     *)
(* duration; all rows have one date and one team member.                   *)
(***************************************************************************)
Pow10(k) == CASE k = 0 -> 1 [] k = 1 -> 10 [] k = 2 -> 100 [] k = 3 -> 1000 [] k = 4 -> 10000

\* (variant: cut instead of round)
round_choices_floor(num, den) == {num \div den}

\* the integers nearest to num / den: one, or the two neighbours when
\* num / den is halfway between them (the binary value of a decimal tie
\* lies on either side)
round_choices(num, den) ==
    LET lo == num \div den
    IN  IF 2 * (num - lo * den) < den THEN {lo}
        ELSE IF 2 * (num - lo * den) > den THEN {lo + 1}
        ELSE {lo, lo + 1}

\* dict.get(key, default)
dict_get(d, key, default) == IF key \in DOMAIN d THEN d[key] ELSE default

\* transform_category, lines 56-58; a NaN category stays NaN
transform_category(category, transforms) == dict_get(transforms, category, category)

\* sort_values(['Date', 'Client', 'Name']) for rows of one date and name:
\* clients in alphabetical order, NaN last
SortByClient(rows) ==
    SelectSeq(rows, LAMBDA r : r.Client = "Acme")
      \o SelectSeq(rows, LAMBDA r : r.Client = "Beta")
      \o SelectSeq(rows, LAMBDA r : r.Client = Null)

\* process_clickup_export, lines 67-106
process_clickup_export(export, config) ==
    SortByClient([i \in 1 .. Len(export) |->
        [Client |-> transform_category(export[i].CATEGORY, config.category_transforms),
         Hours  |-> parse_duration_to_decimal(export[i].Time)]])

\* df['Client'].map(rates), line 113
billing_rate(client, rates) == IF client \in DOMAIN rates THEN {rates[client]} ELSE {}

\* the values (Billable Hours * Billing Rate).round(2) can take, line 114
amount_choices(hours, rate) ==
    IF rate = {} THEN {{}}
    ELSE LET r == CHOOSE x \in rate : TRUE
         IN  {{a} : a \in round_choices(hours.m * r, Pow10(hours.k))}

\* Series.sum() of amounts: NaN is skipped
RECURSIVE SumAmounts(_)
SumAmounts(amounts) ==
    IF amounts = << >> THEN 0
    ELSE (IF Head(amounts) = {} THEN 0 ELSE CHOOSE x \in Head(amounts) : TRUE)
         + SumAmounts(Tail(amounts))

\* groupby('Client')['Amount'].sum().round(2) for one client, lines 126-129
client_amount(df, client) ==
    LET rows == SelectSeq(df, LAMBDA r : r.Client = client)
        sum  == SumAmounts([i \in 1 .. Len(rows) |-> rows[i].Amount])
    IN  CHOOSE a \in round_choices(sum, 1) : TRUE

\* (variant: flag at two months or less)
low_budget_le(new_remaining, this_month_amount) ==
    new_remaining <= 2 * this_month_amount

\* months_left < 2.0 for months_left = new_remaining / this_month_amount
\* with this_month_amount > 0, line 193
low_budget(new_remaining, this_month_amount) ==
    new_remaining < 2 * this_month_amount

\* one line of the table 'Summary by Client', lines 181-203
client_line(df, config, client) ==
    LET rate              == dict_get(config.billing_rates, client, 0)
        remaining         == dict_get(config.remaining_budget, client, 0)
        this_month_amount == client_amount(df, client)
        new_remaining     == remaining - this_month_amount
        divided           == this_month_amount > 0
        flagged           == divided /\ low_budget(new_remaining, this_month_amount)
    IN  [rate |-> rate, amount |-> this_month_amount, new_remaining |-> new_remaining,
         divided |-> divided,
         \* f"{months_left:.1f}", in tenths, or "N/A"
         months_display |->
            IF divided
            THEN {CHOOSE t \in round_choices(10 * new_remaining, this_month_amount) : TRUE}
            ELSE {},
         flagged |-> flagged]

\* generate_summary_report, lines 119-212: the per-client table, the grand
\* total and the alerts
generate_summary_report(df, config) ==
    LET clients == {df[i].Client : i \in 1 .. Len(df)} \ {Null}
        lines   == [c \in clients |-> client_line(df, config, c)]
        low_budget_warnings == {c \in clients : lines[c].flagged}
    IN  [clients |-> lines,
         grand_total_amount |-> SumAmounts([i \in 1 .. Len(df) |-> df[i].Amount]),
         low_budget_warnings |-> low_budget_warnings,
         alerts_section |-> low_budget_warnings # {}]

(***************************************************************************)
(* SpecBilling: one run of main() of process_clickup_billing.py on a small *)
(* export and configuration.                                               *)
(***************************************************************************)
MaxBillingRows == 2     \* rows of the export

BillingTexts ==
    { <<"1", ":", "3", "0">>,      \* 1.5 hours
      <<"0", ":", "0", "3">>,      \* 0.05 hours
      <<"-", "2">>,
      <<".", "1", "2", "5">>,
      <<"x">> }

ExportRows == [CATEGORY : {"acme-dev", "Beta", Null}, Time : BillingTexts]

\* config.yaml: rates in cents per hour, budgets in cents
Configs ==
    [category_transforms : {[c \in {"acme-dev"} |-> "Acme"]},
     billing_rates :
        {[c \in {"Acme"} |-> 100], [c \in {"Acme", "Beta"} |-> IF c = "Acme" THEN 100 ELSE 15]},
     remaining_budget :
        {[c \in {"Acme"} |-> 450], [c \in {"Acme"} |-> 449],
         [c \in {"Acme", "Beta"} |-> IF c = "Acme" THEN 0 ELSE 1000]}]

InitBilling ==
    /\ bronze = EmptyBag
    /\ silver = EmptyBag
    /\ config_excluded = DefaultExcludedCodes
    /\ RunIdle
    /\ NoCall

BillingStep(name, input, output) ==
    /\ op' = name
    /\ op_in' = input
    /\ op_out' = output
    /\ ncalls' = ncalls + 1
    /\ UNCHANGED <<dbVars, runVars, config_excluded, peer>>

\* lines 265-279
ProcessClickupExport ==
    /\ op = "none"
    /\ \E config \in Configs, n \in 0 .. MaxBillingRows :
          \E export \in [1 .. n -> ExportRows] :
              BillingStep("process_clickup_export",
                          [export |-> export, config |-> config],
                          [df |-> process_clickup_export(export, config)])

\* line 282: calculate_billing_amounts, lines 109-116
CalculateBillingAmounts ==
    /\ op = "process_clickup_export"
    /\ LET df    == op_out.df
           rates == op_in.config.billing_rates
       IN  \E amounts \in [1 .. Len(df) ->
                             UNION {amount_choices(df[i].Hours, billing_rate(df[i].Client, rates))
                                       : i \in 1 .. Len(df)}] :
              /\ \A i \in 1 .. Len(df) :
                    amounts[i] \in amount_choices(df[i].Hours, billing_rate(df[i].Client, rates))
              /\ BillingStep("calculate_billing_amounts", op_in,
                    [df |-> [i \in 1 .. Len(df) |->
                               [Client |-> df[i].Client, Hours |-> df[i].Hours,
                                Rate   |-> billing_rate(df[i].Client, rates),
                                Amount |-> amounts[i]]]])

\* line 308
GenerateSummaryReport ==
    /\ op = "calculate_billing_amounts"
    /\ BillingStep("generate_summary_report", op_in,
                   [df |-> op_out.df,
                    report |-> generate_summary_report(op_out.df, op_in.config)])

NextBilling == ProcessClickupExport \/ CalculateBillingAmounts \/ GenerateSummaryReport

SpecBilling == InitBilling /\ [][NextBilling]_vars

\* the sum of f over the finite set S
RECURSIVE SumOver(_, _)
SumOver(S, f) ==
    IF S = {} THEN 0
    ELSE LET x == CHOOSE y \in S : TRUE IN f[x] + SumOver(S \ {x}, f)

\* the amount of row r of the data set is its hours times its client's
\* rate to the nearest cent, NaN when the client has no rate
RowAmountRounded(r, rates) ==
    IF r.Client \in DOMAIN rates
    THEN \E a \in r.Amount :
            LET exact == r.Hours.m * rates[r.Client]
                scale == Pow10(r.Hours.k)
            IN  /\ 2 * (a * scale - exact) <= scale
                /\ 2 * (exact - a * scale) <= scale
    ELSE r.Amount = {}

\* C19: every row amount is hours times the client's rate rounded to 2
\* decimals, and the grand total of the report equals the sum of the row
\* amounts and the sum of the per-client amounts of the client table, also
\* when a client has no configured rate.
C19_CrossAggregation ==
    op = "generate_summary_report" =>
        LET df      == op_out.df
            report  == op_out.report
            rates   == op_in.config.billing_rates
            valued  == {i \in 1 .. Len(df) : df[i].Amount # {}}
            amount  == [i \in valued |-> CHOOSE a \in df[i].Amount : TRUE]
            clients == DOMAIN report.clients
        IN  /\ \A i \in 1 .. Len(df) : RowAmountRounded(df[i], rates)
            /\ report.grand_total_amount = SumOver(valued, amount)
            /\ report.grand_total_amount =
                  SumOver(clients, [c \in clients |-> report.clients[c].amount])

\* two clients, one of them without a configured rate
C19_Witness ==
    /\ op = "generate_summary_report"
    /\ Len(op_out.df) = 2
    /\ op_out.df[1].Client = "Acme" /\ op_out.df[1].Amount = {150}
    /\ op_out.df[2].Client = "Beta" /\ op_out.df[2].Amount = {}
    /\ op_out.report.grand_total_amount = 150

\* C20: for every client of the report new_remaining is the configured
\* remaining budget (0 when none) minus the amount billed; the client is
\* flagged and in the alerts exactly when the amount is > 0 and
\* new_remaining / amount < 2.0; with an amount of 0 the months-left cell is
\* "N/A", nothing is divided and the client is not flagged; the alerts
\* subsection is there exactly when some client is flagged.
C20_BudgetRunway ==
    op = "generate_summary_report" =>
        LET report == op_out.report
            budget == op_in.config.remaining_budget
        IN  /\ \A c \in DOMAIN report.clients :
                  LET line == report.clients[c]
                      low  == line.amount > 0 /\ line.new_remaining < 2 * line.amount
                  IN  /\ line.new_remaining =
                            (IF c \in DOMAIN budget THEN budget[c] ELSE 0) - line.amount
                      /\ line.flagged <=> low
                      /\ c \in report.low_budget_warnings <=> low
                      /\ line.amount = 0 =>
                            /\ line.months_display = {}
                            /\ ~line.divided
                            /\ ~line.flagged
            /\ report.alerts_section <=> report.low_budget_warnings # {}

\* a client at exactly two months left, not flagged, next to a client that
\* billed nothing
C20_Witness ==
    /\ op = "generate_summary_report"
    /\ DOMAIN op_out.report.clients = {"Acme", "Beta"}
    /\ op_out.report.clients["Acme"].amount = 150
    /\ op_out.report.clients["Acme"].new_remaining = 300
    /\ ~op_out.report.clients["Acme"].flagged
    /\ op_out.report.clients["Beta"].amount = 0
    /\ op_out.report.clients["Beta"].months_display = {}
    /\ ~op_out.report.alerts_section

(***************************************************************************)
(* scripts/billing/archive_month.py and the files main() of                *)
(* process_clickup_billing.py writes.  A directory entry is [stem, suffix] *)
(* (pathlib's split of a file name); every entry is a regular file.  The   *)
(* file system is [raw, cleaned, reports, raw_archive, output_archive]:    *)
(* the entries of raw/clickup_billing, of output/monthly_billing/cleaned   *)
(* and /reports, and the entries of the archive folders, each with the     *)
(* name of its dated folder.                                               *)
(***************************************************************************)
Entry(stem, suffix) == [stem |-> stem, suffix |-> suffix]
FileName(e) == e.stem \o e.suffix

\* ''.join of a sequence of characters
RECURSIVE Join(_)
Join(cs) == IF cs = << >> THEN "" ELSE Head(cs) \o Join(Tail(cs))

DigitStr(d) ==
    CASE d = 0 -> "0" [] d = 1 -> "1" [] d = 2 -> "2" [] d = 3 -> "3" [] d = 4 -> "4"
      [] d = 5 -> "5" [] d = 6 -> "6" [] d = 7 -> "7" [] d = 8 -> "8" [] d = 9 -> "9"

\* f"{n:02d}" for 0 <= n <= 99
format_02d(n) == DigitStr(n \div 10) \o DigitStr(n % 10)

\* strftime('%Y-%m-%d') and strftime('%Y-%m') of a date [y, m, d]
strftime_Y(date)   == format_02d(date.y \div 100) \o format_02d(date.y % 100)
strftime_Ym(date)  == strftime_Y(date) \o "-" \o format_02d(date.m)
strftime_Ymd(date) == strftime_Ym(date) \o "-" \o format_02d(date.d)

\* Path.glob of a pattern without wildcards, and of '*.csv'
glob_name(dir, pattern) == {e \in dir : FileName(e) = pattern}
glob_suffix(dir, suffix) == {e \in dir : e.suffix = suffix}

\* the entries of an archive folder
Archived(archive_name, files) == {[dir |-> archive_name, file |-> f] : f \in files}

\* main() of process_clickup_billing.py, lines 257-308: the files it needs
\* and the files it writes, for a data set whose dates run from min_date to
\* max_date
billing_main(fs, min_date, max_date) ==
    IF glob_suffix(fs.raw, ".csv") = {}
    THEN [status |-> "exit 1", fs |-> fs, csv |-> Entry("", ""), report |-> Entry("", "")]
    ELSE LET date_range  == strftime_Ymd(min_date) \o "_to_" \o strftime_Ymd(max_date)
             output_csv  == Entry("billing_report_" \o date_range, ".csv")
             month_year  == strftime_Ym(min_date)
             output_report == Entry("billing_summary_" \o month_year, ".md")
         IN  [status |-> "ok",
              fs |-> [fs EXCEPT !.cleaned = @ \cup {output_csv},
                                !.reports = @ \cup {output_report}],
              csv |-> output_csv, report |-> output_report]

\* lines 30-39
valid_year_month(year, month) ==
    /\ py_int(year).ok
    /\ py_int(month).ok
    /\ 2020 <= py_int(year).v /\ py_int(year).v <= 2100
    /\ 1 <= py_int(month).v /\ py_int(month).v <= 12

\* the file a path component of the archive folder must not be: mkdir of
\* raw/clickup_billing/archive/<name>, lines 49-52
ArchiveEntry == Entry("archive", "")

\* variant: the files are copied, the sources stay
move_files_copy(dir, files) == dir

\* shutil.move of the files out of their folder, lines 70, 90, 103, 114
move_files(dir, files) == dir \ files

\* archive_month, lines 22-135
archive_month(fs, year, month) ==
    IF ~valid_year_month(year, month)
    THEN [status |-> "exit 1", fs |-> fs, archived_files |-> {}, warnings |-> << >>]
    ELSE IF ArchiveEntry \in fs.raw
    THEN [status |-> "NotADirectoryError", fs |-> fs, archived_files |-> {},
          warnings |-> << >>]
    ELSE LET month_str    == format_02d(py_int(month).v)
             archive_name == Join(year) \o "-" \o month_str
             csv_files       == glob_suffix(fs.raw, ".csv")
             cleaned_pattern == "billing_report_" \o month_str \o "_" \o Join(year) \o ".csv"
             cleaned_files   == glob_name(fs.cleaned, cleaned_pattern)
             summary_pattern == "billing_summary_" \o month_str \o "_" \o Join(year) \o ".md"
             summary_files   == glob_name(fs.reports, summary_pattern)
             pdf_pattern     == "billing_summary_" \o month_str \o "_" \o Join(year) \o ".pdf"
             pdf_files       == glob_name(fs.reports, pdf_pattern)
         IN  [status |-> "ok",
              fs |-> [raw     |-> move_files(fs.raw, csv_files),
                      cleaned |-> move_files(fs.cleaned, cleaned_files),
                      reports |-> move_files(move_files(fs.reports, summary_files),
                                             pdf_files),
                      raw_archive |-> fs.raw_archive \cup Archived(archive_name, csv_files),
                      output_archive |->
                          fs.output_archive
                          \cup Archived(archive_name,
                                        cleaned_files \cup summary_files \cup pdf_files)],
              archived_files |->
                  {[kind |-> "Raw CSV", name |-> FileName(f)] : f \in csv_files}
                  \cup {[kind |-> "Cleaned CSV", name |-> FileName(f)] : f \in cleaned_files}
                  \cup {[kind |-> "Summary report", name |-> FileName(f)] : f \in summary_files}
                  \cup {[kind |-> "PDF report", name |-> FileName(f)] : f \in pdf_files},
              warnings |->
                  (IF csv_files = {}
                   THEN <<"No CSV files found in raw/clickup_billing/">> ELSE << >>)
                  \o (IF cleaned_files = {}
                      THEN <<"No cleaned CSV found matching: " \o cleaned_pattern>>
                      ELSE << >>)
                  \o (IF summary_files = {}
                      THEN <<"No summary report found matching: " \o summary_pattern>>
                      ELSE << >>)]

(***************************************************************************)
(* SpecArchive: the billing processor (once, or not at all) and then       *)
(* archive_month, called up to MaxArchiveCalls times in a row, on small    *)
(* folders.                                                                *)
(***************************************************************************)
MaxArchiveCalls == 2     \* archive_month calls in one behaviour

ExportA == Entry("export_a", ".csv")
ExportB == Entry("export_b", ".csv")
Notes   == Entry("notes", ".txt")
CleanedByProcessor == Entry("billing_report_2025-09-01_to_2025-09-30", ".csv")
CleanedForArchiver == Entry("billing_report_09_2025", ".csv")
SummaryByProcessor == Entry("billing_summary_2025-09", ".md")
SummaryForArchiver == Entry("billing_summary_09_2025", ".md")
PdfForArchiver     == Entry("billing_summary_09_2025", ".pdf")

ArchiveFolders ==
    [raw     : {{}, {ExportA}, {ExportA, Notes}, {ExportA, ExportB}, {ExportA, ArchiveEntry}},
     cleaned : {{}, {CleanedForArchiver}, {CleanedForArchiver, CleanedByProcessor}},
     reports : {{}, {SummaryForArchiver}, {SummaryForArchiver, PdfForArchiver},
                {SummaryByProcessor},
                {SummaryByProcessor, SummaryForArchiver, PdfForArchiver}},
     raw_archive    : {{}, Archived("2025-09", {ExportA})},
     output_archive : {{}}]

YearTexts  == { <<"2", "0", "2", "5">>, <<"0", "2", "0", "2", "5">>, <<"2", "0", "1", "9">> }
MonthTexts == { <<"9">>, <<"0", "9">>, <<"1", "3">> }

\* first and last date of the processed data
DataRanges ==
    { <<[y |-> 2025, m |-> 9, d |-> 1],  [y |-> 2025, m |-> 9, d |-> 30]>>,
      <<[y |-> 2025, m |-> 9, d |-> 15], [y |-> 2025, m |-> 10, d |-> 2]>> }

InitArchive ==
    /\ bronze = EmptyBag
    /\ silver = EmptyBag
    /\ config_excluded = DefaultExcludedCodes
    /\ RunIdle
    /\ NoCall

ArchiveStep(name, input, output) ==
    /\ op' = name
    /\ op_in' = input
    /\ op_out' = output
    /\ ncalls' = ncalls + 1
    /\ UNCHANGED <<dbVars, runVars, config_excluded, peer>>

\* python3 process_clickup_billing.py
ProcessorMain ==
    /\ op = "none"
    /\ \E fs \in ArchiveFolders, range \in DataRanges :
          ArchiveStep("main",
                      [fs |-> fs, min_date |-> range[1], max_date |-> range[2]],
                      billing_main(fs, range[1], range[2]))

\* python3 archive_month.py YYYY MM
ArchiveMonth ==
    /\ op \in {"none", "main", "archive_month"}
    /\ (IF op = "archive_month" THEN op_in.n ELSE 0) < MaxArchiveCalls
    /\ \E fs \in (IF op = "none" THEN ArchiveFolders ELSE {op_out.fs}),
          year \in YearTexts, month \in MonthTexts :
          ArchiveStep("archive_month",
                      [fs |-> fs, year |-> year, month |-> month,
                       n  |-> (IF op = "archive_month" THEN op_in.n ELSE 0) + 1,
                       prev |-> [op |-> op, in |-> op_in, out |-> op_out]],
                      archive_month(fs, year, month))

NextArchive == ProcessorMain \/ ArchiveMonth

SpecArchive == InitArchive /\ [][NextArchive]_vars

\* archive_month was called for year Y and month M (numbers)
ArchiveCalledFor(Y, M) ==
    /\ op = "archive_month"
    /\ valid_year_month(op_in.year, op_in.month)
    /\ py_int(op_in.year).v = Y
    /\ py_int(op_in.month).v = M

\* the processor ran right before, on data of one month
ProcessedMonth ==
    /\ op = "archive_month"
    /\ op_in.prev.op = "main"
    /\ op_in.prev.out.status = "ok"
    /\ op_in.prev.in.min_date.y = op_in.prev.in.max_date.y
    /\ op_in.prev.in.min_date.m = op_in.prev.in.max_date.m

\* C21: after the billing processor has written its cleaned CSV and its
\* Markdown summary for a month (Y, M), archive_month(Y, M) moves both files
\* into output/monthly_billing/archive/Y-M/ and leaves neither in the cleaned
\* or the reports folder (on folders in which the archive folder can be made).
C21_ArchiverPicksUpOutputs ==
    (/\ ProcessedMonth
     /\ ArchiveCalledFor(op_in.prev.in.min_date.y, op_in.prev.in.min_date.m)
     /\ ArchiveEntry \notin op_in.fs.raw)
    => LET written == op_in.prev.out
           folder  == strftime_Ym(op_in.prev.in.min_date)
       IN  /\ op_out.status = "ok"
           /\ written.csv \notin op_out.fs.cleaned
           /\ written.report \notin op_out.fs.reports
           /\ [dir |-> folder, file |-> written.csv] \in op_out.fs.output_archive
           /\ [dir |-> folder, file |-> written.report] \in op_out.fs.output_archive

\* the case of C21 is reached with the year and the month as the usage line
\* gives them: archive_month.py 2025 09
C21_CaseReached ==
    /\ ProcessedMonth
    /\ ArchiveCalledFor(2025, 9)
    /\ op_in.year = <<"2", "0", "2", "5">>
    /\ op_in.month = <<"0", "9">>
    /\ op_out.status = "ok"
    /\ op_in.prev.out.csv \in op_out.fs.cleaned

\* ---- what archive_month is said to do with a folder ---------------------
MonthText == format_02d(py_int(op_in.month).v)
RawMatches == {e \in op_in.fs.raw : e.suffix = ".csv"}
CleanedMatches ==
    {e \in op_in.fs.cleaned :
        FileName(e) = "billing_report_" \o MonthText \o "_" \o Join(op_in.year) \o ".csv"}
SummaryMatches ==
    {e \in op_in.fs.reports :
        FileName(e) = "billing_summary_" \o MonthText \o "_" \o Join(op_in.year) \o ".md"}
PdfMatches ==
    {e \in op_in.fs.reports :
        FileName(e) = "billing_summary_" \o MonthText \o "_" \o Join(op_in.year) \o ".pdf"}
AbsentKinds ==
    (IF RawMatches = {} THEN 1 ELSE 0) + (IF CleanedMatches = {} THEN 1 ELSE 0)
    + (IF SummaryMatches = {} THEN 1 ELSE 0)
InArchive(archive, e) == \E a \in archive : a.file = e

\* the call completes; every matching file is in the archive and no longer in
\* its folder, every other file is where it was; one warning per absent kind
ArchiveMovesAndWarns ==
    /\ op_out.status = "ok"
    /\ op_out.fs.raw = op_in.fs.raw \ RawMatches
    /\ op_out.fs.cleaned = op_in.fs.cleaned \ CleanedMatches
    /\ op_out.fs.reports = op_in.fs.reports \ (SummaryMatches \cup PdfMatches)
    /\ \A e \in RawMatches : InArchive(op_out.fs.raw_archive, e)
    /\ \A e \in CleanedMatches \cup SummaryMatches \cup PdfMatches :
          InArchive(op_out.fs.output_archive, e)
    /\ op_in.fs.raw_archive \subseteq op_out.fs.raw_archive
    /\ op_in.fs.output_archive \subseteq op_out.fs.output_archive
    /\ Cardinality(op_out.archived_files)
         = Cardinality(RawMatches) + Cardinality(CleanedMatches)
           + Cardinality(SummaryMatches) + Cardinality(PdfMatches)
    /\ Len(op_out.warnings) = AbsentKinds

\* a call that moved nothing and reported the three warnings
ZeroMoves ==
    /\ op_out.status = "ok"
    /\ op_out.archived_files = {}
    /\ op_out.fs = op_in.fs
    /\ Len(op_out.warnings) = 3

SecondCall == op = "archive_month" /\ op_in.prev.op = "archive_month"

\* the call before was for the same year and month (as numbers)
SameMonthAsBefore ==
    /\ SecondCall
    /\ valid_year_month(op_in.prev.in.year, op_in.prev.in.month)
    /\ py_int(op_in.prev.in.year).v = py_int(op_in.year).v
    /\ py_int(op_in.prev.in.month).v = py_int(op_in.month).v

\* the call before had the same year text and the same month
SameArgumentsAsBefore ==
    /\ SameMonthAsBefore
    /\ op_in.prev.in.year = op_in.year

C22_OneKindAbsent ==
    /\ op = "archive_month"
    /\ op_in.prev.op = "none"
    /\ op_out.status = "ok"
    /\ Len(op_out.warnings) = 1
    /\ Cardinality(op_out.archived_files) >= 2

\* the two cases that refute C22 as stated
C22_ArchiveIsAFile ==
    /\ op = "archive_month"
    /\ valid_year_month(op_in.year, op_in.month)
    /\ op_out.status = "NotADirectoryError"

C22_SameMonthOtherText ==
    /\ SameMonthAsBefore
    /\ ArchiveEntry \notin op_in.fs.raw
    /\ op_out.archived_files # {}

(***************************************************************************)
(* adp/config.py: the substitution of environment variables.  A node of a  *)
(* loaded configuration is [tag, val, keys, kids]: a scalar leaf has its   *)
(* text in val (tag str, int, bool or null), a list has its items in kids, *)
(* a mapping its keys in keys and their values, in the same order, in      *)
(* kids.  The environment is a function from names to values; os.getenv    *)
(* of a name outside its domain is None.                                   *)
(***************************************************************************)
Leaf(tag, val)    == [tag |-> tag, val |-> val, keys |-> << >>, kids |-> << >>]
ListNode(kids)    == [tag |-> "list", val |-> << >>, keys |-> << >>, kids |-> kids]
DictNode(keys, kids) == [tag |-> "dict", val |-> << >>, keys |-> keys, kids |-> kids]

startswith(cs, prefix) == Len(cs) >= Len(prefix) /\ SubSeq(cs, 1, Len(prefix)) = prefix
endswith(cs, suffix)   ==
    Len(cs) >= Len(suffix) /\ SubSeq(cs, Len(cs) - Len(suffix) + 1, Len(cs)) = suffix

\* variant: a list is returned as it is, its items are not visited
RECURSIVE _substitute_env_vars_flat(_, _)
_substitute_env_vars_flat(obj, env) ==
    IF obj.tag = "dict"
    THEN [obj EXCEPT !.kids = [i \in DOMAIN obj.kids |->
                                  _substitute_env_vars_flat(obj.kids[i], env)]]
    ELSE IF obj.tag = "str" /\ startswith(obj.val, <<"$", "{">>) /\ endswith(obj.val, <<"}">>)
    THEN LET env_var == SubSeq(obj.val, 3, Len(obj.val) - 1)
         IN  IF env_var \notin DOMAIN env
             THEN Leaf("str", <<"M", "I", "S", "S", "I", "N", "G", "_">> \o env_var)
             ELSE Leaf("str", env[env_var])
    ELSE obj

\* _substitute_env_vars, lines 28-42
RECURSIVE _substitute_env_vars(_, _)
_substitute_env_vars(obj, env) ==
    IF obj.tag = "dict"
    THEN [obj EXCEPT !.kids = [i \in DOMAIN obj.kids |->
                                  _substitute_env_vars(obj.kids[i], env)]]
    ELSE IF obj.tag = "list"
    THEN [obj EXCEPT !.kids = [i \in DOMAIN obj.kids |->
                                  _substitute_env_vars(obj.kids[i], env)]]
    ELSE IF obj.tag = "str" /\ startswith(obj.val, <<"$", "{">>) /\ endswith(obj.val, <<"}">>)
    THEN LET env_var == SubSeq(obj.val, 3, Len(obj.val) - 1)
         IN  IF env_var \notin DOMAIN env
             THEN Leaf("str", <<"M", "I", "S", "S", "I", "N", "G", "_">> \o env_var)
             ELSE Leaf("str", env[env_var])
    ELSE obj

(***************************************************************************)
(* SpecConfig: _substitute_env_vars applied to the configuration trees of  *)
(* up to MaxTreeDepth levels of nesting, under a few environments.         *)
(***************************************************************************)
MaxTreeDepth == 2     \* levels of lists and mappings above a leaf

NameA == <<"A">>
NameB == <<"B">>
PlaceholderA == <<"$", "{", "A", "}">>

ConfigLeaves ==
    { Leaf("str", PlaceholderA),
      Leaf("str", <<"$", "{", "B", "}">>),
      Leaf("str", <<"$", "{", "}">>),
      Leaf("str", <<"$", "{", "A">>),
      Leaf("str", <<"$", "A", "}">>),
      Leaf("str", <<"x", "$", "{", "A", "}">>),
      Leaf("str", <<"$", "{", "A", "}", "$", "{", "B", "}">>),
      Leaf("str", <<"A">>),
      Leaf("str", << >>),
      Leaf("int", <<"5">>),
      Leaf("bool", <<"t", "r", "u", "e">>),
      Leaf("null", <<"n", "u", "l", "l">>) }

\* the leaves that stand beside a subtree in a list or mapping of two
SideLeaves == {Leaf("str", PlaceholderA), Leaf("int", <<"5">>)}

KeyHost == <<"h", "o", "s", "t">>

RECURSIVE ConfigTrees(_)
ConfigTrees(depth) ==
    IF depth = 0 THEN ConfigLeaves
    ELSE LET below == ConfigTrees(depth - 1)
         IN  ConfigLeaves
             \cup {ListNode(<< >>), DictNode(<< >>, << >>)}
             \cup {ListNode(<<t>>) : t \in below}
             \cup {DictNode(<<KeyHost>>, <<t>>) : t \in below}
             \cup {ListNode(<<s, t>>) : s \in SideLeaves, t \in below}
             \cup {DictNode(<<PlaceholderA, KeyHost>>, <<t, s>>) : s \in SideLeaves, t \in below}

AllConfigTrees == ConfigTrees(MaxTreeDepth)

Environments ==
    { [n \in {} |-> << >>],
      [n \in {NameA} |-> <<"v">>],
      [n \in {NameA, NameB} |-> IF n = NameA THEN << >> ELSE PlaceholderA] }

InitConfig ==
    /\ bronze = EmptyBag
    /\ silver = EmptyBag
    /\ config_excluded = DefaultExcludedCodes
    /\ RunIdle
    /\ NoCall

\* config = _substitute_env_vars(config), line 24
CallSubstituteEnvVars ==
    /\ op = "none"
    /\ \E obj \in AllConfigTrees, env \in Environments :
          /\ op' = "_substitute_env_vars"
          /\ op_in' = [obj |-> obj, env |-> env]
          /\ op_out' = _substitute_env_vars(obj, env)
    /\ ncalls' = ncalls + 1
    /\ UNCHANGED <<dbVars, runVars, config_excluded, peer>>

NextConfig == CallSubstituteEnvVars

SpecConfig == InitConfig /\ [][NextConfig]_vars

\* a text of the form ${NAME}, and its NAME
IsPlaceholder(cs) ==
    Len(cs) >= 3 /\ cs = <<"$", "{">> \o SubSeq(cs, 3, Len(cs) - 1) \o <<"}">>
PlaceholderName(cs) == SubSeq(cs, 3, Len(cs) - 1)

\* out is the tree t with its placeholders replaced under env
RECURSIVE SubstitutedTree(_, _, _)
SubstitutedTree(t, out, env) ==
    IF t.tag \in {"list", "dict"}
    THEN /\ out.tag = t.tag
         /\ out.keys = t.keys
         /\ Len(out.kids) = Len(t.kids)
         /\ \A i \in 1 .. Len(t.kids) : SubstitutedTree(t.kids[i], out.kids[i], env)
    ELSE IF t.tag = "str" /\ IsPlaceholder(t.val)
    THEN LET NAME == PlaceholderName(t.val)
         IN  out = Leaf("str", IF NAME \in DOMAIN env THEN env[NAME]
                               ELSE <<"M", "I", "S", "S", "I", "N", "G", "_">> \o NAME)
    ELSE out = t

\* C23: for every configuration tree, _substitute_env_vars returns a tree of
\* the same shape and keys in which each leaf string of the form ${NAME} is
\* the value of the environment variable NAME, or "MISSING_NAME" when the
\* variable is unset, and every other leaf is unchanged.
C23_EnvSubstitution ==
    op = "_substitute_env_vars" => SubstitutedTree(op_in.obj, op_out, op_in.env)

\* a placeholder two levels down, under a list inside a mapping, is replaced
\* by the value of a variable that is set, next to one that is unset
C23_Witness ==
    /\ op = "_substitute_env_vars"
    /\ op_in.env = [n \in {NameA} |-> <<"v">>]
    /\ op_in.obj = DictNode(<<PlaceholderA, KeyHost>>,
                            <<ListNode(<<Leaf("str", PlaceholderA),
                                         Leaf("str", <<"$", "{", "B", "}">>)>>),
                              Leaf("int", <<"5">>)>>)
    /\ op_out = DictNode(<<PlaceholderA, KeyHost>>,
                         <<ListNode(<<Leaf("str", <<"v">>),
                                      Leaf("str", <<"M", "I", "S", "S", "I", "N", "G", "_", "B">>)>>),
                           Leaf("int", <<"5">>)>>)

(***************************************************************************)
(* Further properties of the date functions (SpecDates)                    *)
(***************************************************************************)
\* C26: for every reference date t, the pair get_monday_dates(t) returns is
\* accepted by validate_monday_dates: it returns True and raises no error.
C26_ResolverOutputValid ==
    (op = "get_monday_dates") => validate_monday_dates(op_out[1], op_out[2]) = "True"

\* New Year's Day 2024, a Monday: the pair spans the turn of the year
C26_Witness ==
    /\ op = "get_monday_dates"
    /\ op_in.day = strptime([y |-> 2024, m |-> 1, d |-> 1])
    /\ op_out = <<[y |-> 2024, m |-> 1, d |-> 1], [y |-> 2023, m |-> 12, d |-> 25]>>
    /\ validate_monday_dates(op_out[1], op_out[2]) = "True"

(***************************************************************************)
(* Further properties of the orchestrator (Spec)                           *)
(***************************************************************************)
\* the run in progress found rows for its date in both tables
BothTablesHeldRows ==
    /\ pc # "idle"
    /\ Done("check_bronze") /\ Done("check_silver")
    /\ existing_bronze > 0
    /\ existing_silver > 0

\* C24: in a run with --force where both tables hold rows for the target
\* date, the staging rows for that date are deleted first and the summary
\* rows second, and both deletes happen before the load into staging.
C24_ForcedDeleteOrder ==
    (BothTablesHeldRows /\ args.force /\ Done("load")) =>
        /\ Before("delete_bronze", "delete_silver")
        /\ Before("delete_bronze", "load")
        /\ Before("delete_silver", "load")

\* the second half of C24 alone: both deletes come before the load
C24_DeletesBeforeLoad ==
    (BothTablesHeldRows /\ args.force /\ Done("load")) =>
        /\ Before("delete_bronze", "load")
        /\ Before("delete_silver", "load")

\* a forced run in which the summary rows are gone and the staging rows of
\* the date are still there
C24_SummaryDeletedFirst ==
    /\ BothTablesHeldRows /\ args.force
    /\ pc = "delete_bronze"
    /\ NumFor(silver, snapshot_date) = 0
    /\ NumFor(bronze, snapshot_date) = existing_bronze

\* the dates a run of the model can be for
TargetDates == {D1, D2}

\* C27: once staging holds rows for date D and the summary holds none, a run
\* for D without --force does not get past the overwrite guard and writes
\* nothing (when its existence checks succeed it stops there with the
\* warning), and the summary gets rows for D only in a run for D with --force.
C27_HalfLoadedBlocks ==
    \A d \in TargetDates :
        (pc # "idle" /\ NumFor(bronze0, d) > 0 /\ NumFor(silver0, d) = 0) =>
            /\ (snapshot_date = d /\ ~args.force) =>
                  /\ Writes(stmts) = << >>
                  /\ bronze = bronze0
                  /\ silver = silver0
                  /\ pc \notin {"delete_silver", "delete_bronze", "load", "calc"}
                  /\ Done("check_silver") => (pc = "done" /\ warnings # << >>)
            /\ NumFor(silver, d) > 0 => (args.force /\ snapshot_date = d)

\* a run without --force stopped by the guard on a date an earlier run of
\* the model had loaded without aggregating
C27_Witness ==
    /\ pc = "done"
    /\ ~args.force
    /\ snapshot_date = D1
    /\ warnings # << >>
    /\ NumFor(silver0, D1) = 0
    /\ \E r \in RowsFor(bronze0, D1) : r.adp_id = "EMP001"
    /\ silver = silver0

\* C28: a successful run with --force and --skip-calculation for a date D
\* that has summary rows deletes them and does not recompute them: it ends
\* with the staging rows of the file for D and no summary row for D.  Without
\* --force, a run with --skip-calculation never changes the summary table.
C28_ForceWithSkip ==
    /\ (/\ pc = "done" /\ exc = NoExc
        /\ args.force /\ args.skip_calculation
        /\ NumFor(silver0, snapshot_date) > 0)
       => /\ Done("delete_silver")
          /\ Done("load")
          /\ ~Done("calc")
          /\ NumFor(silver, snapshot_date) = 0
          /\ NumFor(bronze, snapshot_date) = BagCardinality(FreshStaging)
          /\ \A r \in RowsFor(bronze, snapshot_date) :
                CopiesIn(r, bronze) = CopiesIn(r, FreshStaging)
    /\ (pc # "idle" /\ ~args.force /\ args.skip_calculation) => silver = silver0

\* a forced run with --skip-calculation that found and removed summary rows
C28_Witness ==
    /\ pc = "done" /\ exc = NoExc
    /\ args.force /\ args.skip_calculation
    /\ existing_silver > 0
    /\ existing_bronze > 0
    /\ NumFor(silver, snapshot_date) = 0
    /\ NumFor(bronze, snapshot_date) = 3

\* the department code clean_adp_data gives a row without one: 'nan' zero-filled
NanCode == <<"0", "0", "0", "n", "a", "n">>

\* the run in progress has cleaned its file
Transformed == pc # "idle" /\ cleaned_df # EmptyFrame

\* the rows of the file without a department code
MissingCodeRows ==
    {i \in 1 .. Len(raw_df.rows) : raw_df.rows[i]["Home Department Code"] = NullCode}

\* C29: a source row whose department code is missing leaves clean_adp_data
\* with the non-null 6-character code '000nan' and passes
\* validate_cleaned_data; if the row meets the active-headcount filters the
\* aggregation inserts a summary row for that code; and no group of the
\* aggregation over rows that came through clean_adp_data has a null
\* department code.
C29_MissingCodeIsDepartment ==
    Transformed =>
        /\ \A i \in MissingCodeRows :
              /\ cleaned_df.rows[i].home_department_code = NanCode
              /\ Len(cleaned_df.rows[i].home_department_code) = 6
        /\ exc.at # "transform"
        /\ validate_cleaned_data(cleaned_df) = "True"
        /\ Done("calc") =>
              \A i \in MissingCodeRows :
                  ActiveFilter(cleaned_df.rows[i], strptime(snapshot_date), config_excluded)
                  => \E r \in RowsFor(silver, snapshot_date) :
                        r.department_number = NanCode /\ r.active_count >= 1
        /\ \A g \in daily_active(FrameRows(cleaned_df), strptime(snapshot_date),
                                 config_excluded) :
              g.home_department_code # NullCode

\* a finished run of the file whose only row has no department code: the
\* summary has a row for department '000nan'
C29_Witness ==
    /\ pc = "done" /\ exc = NoExc
    /\ args.file = NoDeptFile
    /\ Done("calc")
    /\ MissingCodeRows = {1}
    /\ \E r \in RowsFor(silver, snapshot_date) :
          r.department_number = NanCode /\ r.active_count = 1

(***************************************************************************)
(* SpecEngines: the database engines of the loader operations.  Every      *)
(* operation reads the configuration, creates its engine with              *)
(* get_database_engine (line 12, create_engine) and disposes it in its     *)
(* finally clause.  A call ends in one of three ways: the configuration    *)
(* cannot be read (no engine was created yet), the statement fails inside  *)
(* the try block, or the call succeeds.                                    *)
(***************************************************************************)
CallOutcomes == {"ok", "config error", "storage error"}

\* the create_engine calls of one operation: lines 32; 91 and 130; 176; 225
engines_created(name, outcome) ==
    IF outcome = "config error" THEN 0
    ELSE IF name = "execute_headcount_calculation" THEN 2
    ELSE 1

\* the engine.dispose() calls of one operation: the finally clauses of lines
\* 64-65, 153-154, 202-203 and 251-252
engines_disposed(name, outcome) ==
    IF outcome = "config error" THEN 0 ELSE 1

NoEngines == [created |-> 0, disposed |-> 0, calcs |-> 0]

InitEngines ==
    /\ bronze \in {EmptyBag, PriorBronze}
    /\ silver \in {EmptyBag, PriorSilver}
    /\ config_excluded = DefaultExcludedCodes
    /\ RunIdle
    /\ op = "none"
    /\ op_in = Null
    /\ op_out = NoEngines
    /\ ncalls = 0

\* op_out counts the engines created and disposed so far, and the
\* aggregations that got as far as creating an engine
EngineCall(name, input, outcome) ==
    /\ ncalls < MaxCalls
    /\ ncalls' = ncalls + 1
    /\ op' = name
    /\ op_in' = [args |-> input, outcome |-> outcome]
    /\ op_out' = [created  |-> op_out.created + engines_created(name, outcome),
                  disposed |-> op_out.disposed + engines_disposed(name, outcome),
                  calcs    |-> op_out.calcs +
                               (IF name = "execute_headcount_calculation"
                                   /\ outcome # "config error" THEN 1 ELSE 0)]
    /\ UNCHANGED <<runVars, config_excluded, peer>>

EngineLoad ==
    \E df \in LoaderFrames, outcome \in CallOutcomes :
        /\ EngineCall("load_to_bronze_table", df, outcome)
        /\ bronze' = IF outcome = "ok" THEN load_to_bronze_table(bronze, df) ELSE bronze
        /\ UNCHANGED silver

EngineCalc ==
    \E sd \in {D1, D2}, outcome \in CallOutcomes :
        /\ EngineCall("execute_headcount_calculation", <<sd, D0>>, outcome)
        /\ silver' = IF outcome = "ok"
                     THEN silver (+) execute_headcount_calculation(bronze, sd, D0,
                                                                   config_excluded)
                     ELSE silver
        /\ UNCHANGED bronze

EngineCheck ==
    \E sd \in {D1, D2}, table_type \in {"bronze", "silver"}, outcome \in CallOutcomes :
        /\ EngineCall("check_existing_data", <<sd, table_type>>, outcome)
        /\ UNCHANGED dbVars

EngineDelete ==
    \E sd \in {D1, D2}, table_type \in {"bronze", "silver"}, outcome \in CallOutcomes :
        /\ EngineCall("delete_existing_data", <<sd, table_type>>, outcome)
        /\ IF outcome = "ok" /\ table_type = "bronze"
           THEN bronze' = delete_existing_data(bronze, sd) /\ UNCHANGED silver
           ELSE IF outcome = "ok"
           THEN silver' = delete_existing_data(silver, sd) /\ UNCHANGED bronze
           ELSE UNCHANGED dbVars

NextEngines == EngineLoad \/ EngineCalc \/ EngineCheck \/ EngineDelete

SpecEngines == InitEngines /\ [][NextEngines]_vars

\* C25: every engine a loader operation creates is disposed by the time the
\* operation returns or fails: after any sequence of loader operations,
\* successful or not, the number of engines created equals the number
\* disposed.
C25_EnginesReleased == op_out.created = op_out.disposed

\* the engines left undisposed are the first engines of the aggregations:
\* one per execute_headcount_calculation call that read its configuration
C25_OneLeakPerAggregation == op_out.created - op_out.disposed = op_out.calcs

\* two calls, one of them failed in its statement, neither an aggregation:
\* every engine was disposed
C25_OthersRelease ==
    /\ ncalls = 2
    /\ op = "delete_existing_data"
    /\ op_in.outcome = "storage error"
    /\ op_out = [created |-> 2, disposed |-> 2, calcs |-> 0]

(***************************************************************************)
(* The null client code in the aggregation (SpecLoader)                    *)
(***************************************************************************)
\* the staging table without its rows that have no client code
WithoutNullClient(tbl) ==
    [r \in {a \in DOMAIN tbl : a.client_code # Null} |-> tbl[r]]

\* C30: a staging row whose client_code is null is excluded from every
\* active_count, whatever the exclusion set: the rows an aggregation inserts
\* are the rows it inserts when the staging table holds no such row, and no
\* active_count exceeds the number of distinct associate ids of its
\* department among the rows of the date that have a client code.
C30_NullClientNotCounted ==
    (op = "execute_headcount_calculation") =>
        /\ silver (-) silver0
             = execute_headcount_calculation(WithoutNullClient(bronze0), op_in[1],
                                             op_in[2], config_excluded)
        /\ \A r \in DOMAIN (silver (-) silver0) :
              r.active_count <=
                  Cardinality({a.adp_id : a \in {x \in DOMAIN bronze0 :
                                  /\ x.client_code # Null
                                  /\ x.home_department_code = r.department_number
                                  /\ x.snapshot_date = r.snapshot_date}})

\* an aggregation with an empty exclusion list over two rows of one
\* department, one without client code and otherwise countable: the count is 1
C30_Witness ==
    /\ op = "execute_headcount_calculation"
    /\ op_in[1] = D1
    /\ config_excluded = {}
    /\ DOMAIN bronze0 =
          {StagingRow("004", "E4", "Active", "01100", Code456, "HR", Early, {}, {strptime(D1)}),
           StagingRow("009", "E9", "Active", Null, Code456, "HR", Early, {}, {strptime(D1)})}
    /\ \E r \in DOMAIN (silver (-) silver0) :
          r.department_number = Code456 /\ r.active_count = 1

====
